---- MODULE Spec2Model ----
(***************************************************************************)
(* A model of ProcessGroupCCL (src/src/ProcessGroupCCL.cpp): the process   *)
(* group engine of one rank, its Work handles, the process-wide substrate  *)
(* state (globalComm, cclInitOnceFlag, globalMutex) and the caller threads *)
(* that enter it.  The oneCCL substrate is the environment: its calls are  *)
(* entered and left in separate steps, they may raise an error, and its    *)
(* requests complete when the peers make progress.                         *)
(***************************************************************************)
EXTENDS Integers, Sequences, FiniteSets, TLC

\* ------------------------------------------------------------------ bounds
\* Number of ranks of the communicator (globalComm->size()).
WorldSize == 2
\* Process groups a run may create.
MaxGroups == 1
\* Times the shared communicator may be created (attempts of the once-body).
MaxInitRuns == 2
\* Longest buffer list given to the layout reconciler on its own.
MaxLen == 3

\* ------------------------------------------------------------------ values
Threads == {"t1", "t2"}
NoThread == "none"
\* The handles a run holds at a time: one for each caller thread.
Handles == 1..Cardinality(Threads)
Groups == 1..MaxGroups
Ranks == 0..(WorldSize - 1)

Range(s) == {s[i] : i \in DOMAIN s}

RECURSIVE SumSeq(_)
SumSeq(s) == IF s = <<>> THEN 0 ELSE Head(s) + SumSeq(Tail(s))

\* at::Tensor as the engine looks at it: element count, leading dimension,
\* element type, layout (dense / strided / sparse / cuda), backing storage and
\* offset in it.  A storage is named by a pair.
Tensor(n, ty, lay, st, off) ==
    [numel |-> n, dim0 |-> n, dtype |-> ty, layout |-> lay,
     storage |-> st, offset |-> off]

\* at::empty({n}, like.options()): a new dense buffer in an allocation of its
\* own; site names the statement that allocates it.
at_empty(n, like, site) ==
    [numel |-> n, dim0 |-> n, dtype |-> like.dtype, layout |-> "dense",
     storage |-> <<site, 0>>, offset |-> 0]

\* ---------------------------------------------------------------- registry
\* std::map<ReduceOp, ccl::reduction> cclOps
cclOps ==
    [MIN |-> "min", MAX |-> "max", SUM |-> "sum", PRODUCT |-> "prod"]

\* std::map<at::ScalarType, ccl::data_type> cclDatatypes
cclDatatypes ==
    [kByte |-> "dt_char", kChar |-> "dt_char", kDouble |-> "dt_double",
     kBFloat16 |-> "dt_bfp16", kFloat |-> "dt_float", kInt |-> "dt_int",
     kLong |-> "dt_int64"]

\* std::map::at: the lookup throws std::out_of_range for a key not in the map.
atThrows(map, key) == key \notin DOMAIN map

\* -------------------------------------------------------------- validation
\* Each check is TRUE when its TORCH_CHECKs pass.
checkSingleTensorHelper(tensor) ==
    /\ tensor.layout # "strided"
    /\ tensor.layout # "sparse"
    /\ tensor.layout # "cuda"
    /\ tensor.numel >= 0

checkRank(rank, size) == (rank >= 0) /\ (rank < size)

checkSingleTensor(tensors) ==
    /\ Len(tensors) = 1
    /\ checkSingleTensorHelper(tensors[1])

checkSameSizeAndType(tensor, tensors) ==
    \A i \in DOMAIN tensors :
        /\ tensors[i].numel = tensor.numel
        /\ tensors[i].dtype = tensor.dtype
        /\ checkSingleTensorHelper(tensors[i])

checkSameType(tensor, tensors) ==
    \A i \in DOMAIN tensors :
        /\ tensors[i].dtype = tensor.dtype
        /\ checkSingleTensorHelper(tensors[i])

\* An integer wider than the checker's own: lo + hi * 2^32 + top * 2^64, with
\* lo between -2^31 and 2^31.  A split size (int64_t) is Wide(lo, hi, 0).
Wide(lo, hi, top) == [lo |-> lo, hi |-> hi, top |-> top]

\* int sum = std::accumulate(begin, end, 0): the accumulator is an int, so each
\* acc + x, computed in int64_t, is cut to its low 32 bits when it is stored
\* back: the hi part of a split size is lost.
RECURSIVE accumulateInt(_, _)
accumulateInt(s, acc) ==
    IF s = <<>> THEN acc ELSE accumulateInt(Tail(s), acc + Head(s).lo)

checkSplitSizes(split_sizes, tensor, groupSize) ==
    IF Len(split_sizes) = 0
    THEN tensor.dim0 % groupSize = 0
    ELSE /\ Len(split_sizes) = groupSize
         /\ accumulateInt(split_sizes, 0) = tensor.dim0

\* -------------------------------------------------------------- reconciler
\* A loop that keeps the first buffer as the anchor even when it is empty.
RECURSIVE flatLoop_keepsFirst(_, _, _, _)
flatLoop_keepsFirst(tensors, groupSize, i, st) ==
    IF i > groupSize THEN st
    ELSE LET cur == tensors[i]
             length == cur.numel
             notInPlace == /\ st.isFlat
                           /\ length # 0
                           /\ \/ st.storage # cur.storage
                              \/ cur.offset # st.firstStorageOffset + st.offset
         IN flatLoop_keepsFirst(tensors, groupSize, i + 1,
                     [st EXCEPT !.lengths = Append(st.lengths, length),
                                !.isFlat = IF notInPlace THEN FALSE ELSE st.isFlat,
                                !.offset = st.offset + length])

\* The loop of computeLengthsAndCheckAndGetFlat from index i on; st carries the
\* locals firstLength, firstTensor, storage, firstStorageOffset, isFlat, offset
\* and the lengths written so far.
RECURSIVE flatLoop(_, _, _, _)
flatLoop(tensors, groupSize, i, st) ==
    IF i > groupSize THEN st
    ELSE LET cur == tensors[i]
             length == cur.numel
             adopt == st.firstLength = 0 /\ length # 0
             a == IF adopt
                  THEN [st EXCEPT !.firstLength = length, !.firstTensor = cur,
                                  !.storage = cur.storage,
                                  !.firstStorageOffset = cur.offset]
                  ELSE st
             notInPlace == /\ a.isFlat
                           /\ length # 0
                           /\ \/ a.storage # cur.storage
                              \/ cur.offset # a.firstStorageOffset + a.offset
         IN flatLoop(tensors, groupSize, i + 1,
                     [a EXCEPT !.lengths = Append(a.lengths, length),
                               !.isFlat = IF notInPlace THEN FALSE ELSE a.isFlat,
                               !.offset = a.offset + length])

\* A reconciler that allocates a flat buffer for every list.
computeLengthsAndCheckAndGetFlat_alwaysAllocates(tensors, groupSize, site) ==
    LET st == flatLoop(tensors, groupSize, 1,
                       [firstLength |-> tensors[1].numel,
                        firstTensor |-> tensors[1],
                        storage |-> tensors[1].storage,
                        firstStorageOffset |-> tensors[1].offset,
                        isFlat |-> TRUE, offset |-> 0, lengths |-> <<>>])
    IN [isFlat |-> st.isFlat,
        lengths |-> st.lengths,
        flatTensor |-> at_empty(st.offset, st.firstTensor, site)]

\* A reconciler that hands back the anchor for every list.
computeLengthsAndCheckAndGetFlat_neverAllocates(tensors, groupSize, site) ==
    LET st == flatLoop(tensors, groupSize, 1,
                       [firstLength |-> tensors[1].numel,
                        firstTensor |-> tensors[1],
                        storage |-> tensors[1].storage,
                        firstStorageOffset |-> tensors[1].offset,
                        isFlat |-> TRUE, offset |-> 0, lengths |-> <<>>])
    IN [isFlat |-> TRUE,
        lengths |-> st.lengths,
        flatTensor |-> st.firstTensor]

\* bool computeLengthsAndCheckAndGetFlat(tensors, lengths, flatTensor), with
\* groupSize = lengths.size(): the result is the returned flag, the lengths
\* table and the flat tensor.
computeLengthsAndCheckAndGetFlat(tensors, groupSize, site) ==
    LET st == flatLoop(tensors, groupSize, 1,
                       [firstLength |-> tensors[1].numel,
                        firstTensor |-> tensors[1],
                        storage |-> tensors[1].storage,
                        firstStorageOffset |-> tensors[1].offset,
                        isFlat |-> TRUE, offset |-> 0, lengths |-> <<>>])
    IN [isFlat |-> st.isFlat,
        lengths |-> st.lengths,
        flatTensor |-> IF st.isFlat THEN st.firstTensor
                       ELSE at_empty(st.offset, st.firstTensor, site)]

\* ------------------------------------------------------------------- state
VARIABLES
    callers,           \* the caller threads of this run
    cclRank,           \* globalComm->rank(): this process's rank in the substrate
    vectorAllgatherv,  \* the build's USE_VECTOR_ALLGATHERV
    pc,                \* where each thread is
    call,              \* each thread's current call: arguments and locals
    ret,               \* what the call returned or threw
    globalMutex,       \* static std::mutex globalMutex: the thread holding it
    cclInitOnceFlag,   \* static std::once_flag: "idle", "running" or "done"
    globalComm,        \* static ccl::communicator_t globalComm is set
    initRuns,          \* times the shared communicator was created
    atexitHandlers,    \* times cclFini was registered with std::atexit
    groups,            \* the ProcessGroupCCL objects
    handles,           \* the WorkCCL objects
    process,           \* "running", "exiting", "exited", "terminated", "crashed"
    recTensors,        \* computeLengthsAndCheckAndGetFlat called on its own: tensors
    recResult,         \* ... and what it returned: flag, lengths, flatTensor
    a2aArgs,           \* the checks and counts of alltoall_base on their own
    a2aResult,         \* ... and their outcome: accepted, the count tables
    ag,                \* an allgather made by every rank: buffers and memory
    peers              \* the ranks of two groups side by side: locks and threads

vars == <<callers, cclRank, vectorAllgatherv, pc, call, ret, globalMutex,
          cclInitOnceFlag, globalComm, initRuns, atexitHandlers, groups,
          handles, process, recTensors, recResult, a2aArgs, a2aResult, ag, peers>>

\* The file-local functions called on their own; a run of the engine leaves
\* these alone.
unit == <<recTensors, recResult, a2aArgs, a2aResult, ag, peers>>

config == <<callers, cclRank, vectorAllgatherv, unit>>
substrateState == <<cclInitOnceFlag, globalComm, initRuns, atexitHandlers>>

\* A thread's call record: the arguments and locals that outlive the call's
\* first step (the buffers are read in that step only), and what the call has
\* done so far (locked: it acquired globalMutex; entered: the
\* substrate entry points it went into; oob: it indexed a count table out of
\* range; sendCounts, recvCounts: the count tables of its alltoallv; inputs,
\* outputs: the buffer lists it reconciles; copies: the copy_ calls made so
\* far, in order; back: the copy_ calls it makes once req->wait() returned).
NoCall ==
    [op |-> "none", pg |-> 0, h |-> 0, root |-> 0, reduceOp |-> "none",
     rank |-> 0, size |-> 0, dtypeKey |-> "none", prim |-> "none",
     sync |-> FALSE, keep |-> {}, lent |-> {}, locked |-> FALSE,
     entered |-> <<>>, oob |-> FALSE, sendCounts |-> <<>>, recvCounts |-> <<>>,
     inputs |-> <<>>, outputs |-> <<>>, copies |-> <<>>, back |-> <<>>]

NoRet == [value |-> "none", error |-> "none", cause |-> "none", h |-> 0]

\* A WorkCCL: req is "the shared_ptr req is non-null", done is "the substrate
\* request has completed", tensors the buffers the handle references; lent
\* are the buffers whose memory the substrate was given for the request.
NoWork ==
    [state |-> "unused", req |-> FALSE, done |-> FALSE, tensors |-> {},
     lent |-> {}]

NoGroup == [state |-> "none", rank |-> 0, size |-> 0]

InitCommon ==
    /\ vectorAllgatherv \in BOOLEAN
    /\ pc = [t \in Threads |-> "idle"]
    /\ call = [t \in Threads |-> NoCall]
    /\ ret = [t \in Threads |-> NoRet]
    /\ globalMutex = NoThread
    /\ cclInitOnceFlag = "idle"
    /\ globalComm = FALSE
    /\ initRuns = 0
    /\ atexitHandlers = 0
    /\ groups = [g \in Groups |-> NoGroup]
    /\ handles = [h \in Handles |-> NoWork]
    /\ process = "running"

\* No file-local function is being called on its own.
NoResult == [called |-> FALSE]
NoArgs == [size_ |-> 0]
NoRanks == [n |-> 0]
UnitIdle ==
    /\ recTensors = <<>> /\ recResult = NoResult
    /\ a2aArgs = NoArgs /\ a2aResult = NoResult
    /\ ag = NoRanks
    /\ peers = NoRanks

\* One caller thread, which makes every call with the wide choice of arguments.
Init == callers = {"t1"} /\ cclRank \in Ranks /\ InitCommon /\ UnitIdle

\* Two caller threads.
InitThreads == callers = Threads /\ cclRank = 0 /\ InitCommon /\ UnitIdle

\* The arguments a call is made with: the wide set in the run of one caller,
\* the narrow one when two callers interleave.
Choices(wide, narrow) == IF Cardinality(callers) = 1 THEN wide ELSE narrow

\* ---------------------------------------------------------- leaving a call
Returns(t, value, h) ==
    /\ pc' = [pc EXCEPT ![t] = "returned"]
    /\ ret' = [ret EXCEPT ![t] = [value |-> value, error |-> "none",
                                  cause |-> "none", h |-> h]]

\* error is the exception the caller sees, cause what raised it:
\*   "check" a TORCH_CHECK, "lookup" a map's at(), "substrate" a ccl call,
\*   "state" an explicit throw of the engine.
Throws(t, error, cause) ==
    /\ pc' = [pc EXCEPT ![t] = "returned"]
    /\ ret' = [ret EXCEPT ![t] = [value |-> "throw", error |-> error,
                                  cause |-> cause, h |-> 0]]

\* What a call into the substrate can raise: the substrate's own ccl::ccl_error,
\* or any other exception.
SubstrateRaises == {"ccl_error", "other"}

\* A CCL_CHECK that lets the exception through as it was raised.
CCL_CHECK_passesThrough(raised) == raised

\* CCL_CHECK(cmd): catch (ccl::ccl_error&) throws std::runtime_error("CCL error
\* in: ..."), catch (...) throws std::runtime_error("unknown error in: ...").
CCL_CHECK(raised) == IF raised = "ccl_error" THEN "substrate" ELSE "unknown"

\* The C++ type of the exception the caller sees.
ExceptionType(error) ==
    CASE error = "validation" -> "c10::Error"
      [] error = "not_implemented" -> "c10::Error"
      [] error \in {"substrate", "unknown", "invalid_state", "not_supported",
                    "atexit_failed"} -> "std::runtime_error"
      [] error = "ccl_raw" -> "ccl::ccl_error"
      [] OTHER -> error

Ready(t) == t \in callers /\ pc[t] = "idle" /\ process = "running"

\* Threads run until the process is gone.
Alive == process \in {"running", "exiting"}

\* The caller takes the result and is ready for its next call.
Finish(t) ==
    /\ Alive
    /\ pc[t] = "returned"
    /\ pc' = [pc EXCEPT ![t] = "idle"]
    /\ call' = [call EXCEPT ![t] = NoCall]
    /\ ret' = [ret EXCEPT ![t] = NoRet]
    /\ UNCHANGED <<config, globalMutex, substrateState, groups, handles, process>>

\* A lock that never makes a thread wait.
MutexFree_ignored == TRUE

\* std::unique_lock<std::mutex> globalLock(globalMutex) can be constructed.
MutexFree == globalMutex = NoThread

\* A lock that stays held when the call is left.
globalLock_kept == globalMutex' = globalMutex

\* ~unique_lock(): globalLock goes out of scope, when the call returns and when
\* an exception unwinds it alike.
globalLock_released == globalMutex' = NoThread

\* ------------------------------------------------------------ Work handle
\* A caller can use a handle while it holds a reference to it.
Live(h) == handles[h].state = "live"

\* The threads that hold a reference to h: they are in one of its methods, or
\* have just been handed it.
Users(h) == {u \in Threads : pc[u] # "idle" /\ (call[u].h = h \/ ret[u].h = h)}

StartCall(t, op, h) ==
    call' = [call EXCEPT ![t] = [NoCall EXCEPT !.op = op, !.h = h]]

\* A completion that releases the request and keeps the buffers.
Released_keepsTensors(w) == [w EXCEPT !.req = FALSE]

\* What completion does to the handle: req.reset(); tensors.clear().
Released(w) == [w EXCEPT !.req = FALSE, !.tensors = {}, !.lent = {}]

\* A destructor that lets a pending handle go.
DestructorTerminates_never(w) == FALSE

\* ~WorkCCL(): the destructor's test, if (req).
DestructorTerminates(w) == w.req

\* ~WorkCCL(), run by the thread that drops the last reference.
WorkCCL_destructor(t, h) ==
    /\ Ready(t)
    /\ Live(h)
    /\ Users(h) = {}
    /\ IF DestructorTerminates(handles[h])
       THEN /\ process' = "terminated"
            /\ handles' = [handles EXCEPT ![h].state = "destroying"]
       ELSE /\ process' = process
            /\ handles' = [handles EXCEPT ![h] = NoWork]
    /\ UNCHANGED <<config, pc, call, ret, globalMutex, substrateState, groups>>

\* isCompleted(), up to the lock: if (!req) return true.
isCompleted(t, h) ==
    /\ Ready(t)
    /\ Live(h)
    /\ StartCall(t, "isCompleted", h)
    /\ IF ~handles[h].req
       THEN Returns(t, "true", 0)
       ELSE pc' = [pc EXCEPT ![t] = "ic_lock"] /\ ret' = ret
    /\ UNCHANGED <<config, globalMutex, substrateState, groups, handles, process>>

\* A method that passed its if (!req) test and then finds req reset by another
\* thread calls through a null pointer: the process crashes, or the call goes on
\* with whatever the dead request answers.
NullRequest(t, answers) ==
    \/ /\ process' = "crashed"
       /\ UNCHANGED <<pc, call, ret, globalMutex>>
    \/ /\ process' = process
       /\ \E v \in answers : Returns(t, v, 0)
       /\ call' = [call EXCEPT ![t].locked = TRUE]
       /\ UNCHANGED globalMutex

\* isCompleted(): the lock is acquired and req->test() entered.
isCompletedLock(t) ==
    /\ Alive
    /\ pc[t] = "ic_lock"
    /\ MutexFree
    /\ IF handles[call[t].h].req
       THEN /\ globalMutex' = t
            /\ pc' = [pc EXCEPT ![t] = "ic_test"]
            /\ call' = [call EXCEPT ![t].locked = TRUE,
                                    ![t].entered = Append(@, "test")]
            /\ UNCHANGED <<ret, process>>
       ELSE NullRequest(t, {"true", "false"})
    /\ UNCHANGED <<config, substrateState, groups, handles>>

\* isCompleted(): req->test() returns the flag or raises; the lock is released
\* as the call is left.
isCompletedTest(t) ==
    /\ Alive
    /\ pc[t] = "ic_test"
    /\ globalLock_released
    /\ \/ /\ (\E raised \in SubstrateRaises : Throws(t, CCL_CHECK(raised), "substrate"))
          /\ UNCHANGED handles
       \/ /\ handles[call[t].h].done
          /\ handles' = [handles EXCEPT ![call[t].h] = Released(@)]
          /\ Returns(t, "true", 0)
       \/ /\ ~handles[call[t].h].done
          /\ UNCHANGED handles
          /\ Returns(t, "false", 0)
    /\ UNCHANGED <<config, call, substrateState, groups, process>>

\* An isSuccess() that answers true whatever the handle holds.
isSuccess_alwaysTrue(t, h) ==
    /\ Ready(t)
    /\ Live(h)
    /\ StartCall(t, "isSuccess", h)
    /\ Returns(t, "true", 0)
    /\ UNCHANGED <<config, globalMutex, substrateState, groups, handles, process>>

\* isSuccess()
isSuccess(t, h) ==
    /\ Ready(t)
    /\ Live(h)
    /\ StartCall(t, "isSuccess", h)
    /\ IF handles[h].req
       THEN Throws(t, "invalid_state", "state")
       ELSE Returns(t, "true", 0)
    /\ UNCHANGED <<config, globalMutex, substrateState, groups, handles, process>>

\* A wait() without its early return.
wait_alwaysLocks(t, h) ==
    /\ Ready(t)
    /\ Live(h)
    /\ StartCall(t, "wait", h)
    /\ pc' = [pc EXCEPT ![t] = "w_lock"] /\ ret' = ret
    /\ UNCHANGED <<config, globalMutex, substrateState, groups, handles, process>>

\* wait(), up to the lock: if (!req) return true.
wait(t, h) ==
    /\ Ready(t)
    /\ Live(h)
    /\ StartCall(t, "wait", h)
    /\ IF ~handles[h].req
       THEN Returns(t, "true", 0)
       ELSE pc' = [pc EXCEPT ![t] = "w_lock"] /\ ret' = ret
    /\ UNCHANGED <<config, globalMutex, substrateState, groups, handles, process>>

\* wait(): the lock is acquired and req->wait() entered.
waitLock(t) ==
    /\ Alive
    /\ pc[t] = "w_lock"
    /\ MutexFree
    /\ IF handles[call[t].h].req
       THEN /\ globalMutex' = t
            /\ pc' = [pc EXCEPT ![t] = "w_wait"]
            /\ call' = [call EXCEPT ![t].locked = TRUE,
                                    ![t].entered = Append(@, "wait")]
            /\ UNCHANGED <<ret, process>>
       ELSE NullRequest(t, {"true"})
    /\ UNCHANGED <<config, substrateState, groups, handles>>

\* wait(): req->wait() returns once the request has completed, or raises.
waitReturn(t) ==
    /\ Alive
    /\ pc[t] = "w_wait"
    /\ globalLock_released
    /\ \/ /\ (\E raised \in SubstrateRaises : Throws(t, CCL_CHECK(raised), "substrate"))
          /\ UNCHANGED handles
       \/ /\ handles[call[t].h].done
          /\ handles' = [handles EXCEPT ![call[t].h] = Released(@)]
          /\ Returns(t, "true", 0)
    /\ UNCHANGED <<config, call, substrateState, groups, process>>

\* abort(): TORCH_CHECK(false, ...)
abort(t, h) ==
    /\ Ready(t)
    /\ Live(h)
    /\ StartCall(t, "abort", h)
    /\ Throws(t, "not_implemented", "check")
    /\ UNCHANGED <<config, globalMutex, substrateState, groups, handles, process>>

\* The substrate: the peers made progress and the request of h completed.
requestCompletes(h) ==
    /\ process \in {"running", "exiting"}
    /\ Live(h)
    /\ handles[h].req
    /\ ~handles[h].done
    /\ handles' = [handles EXCEPT ![h].done = TRUE]
    /\ UNCHANGED <<config, pc, call, ret, globalMutex, substrateState, groups,
                   process>>

\* ------------------------------------------- substrate lifecycle and groups
FreeGroups == {g \in Groups : groups[g].state = "none"}

\* The rank and size the caller passes: -1 is "take the substrate's".
RankChoices == Choices({-1} \cup (0..WorldSize), {-1})
SizeChoices == Choices({-1, WorldSize, WorldSize + 1}, {-1})

\* createProcessGroupCCL(store, rank, size, timeout): the call is made.
createProcessGroupCCL(t, rank, size) ==
    /\ Ready(t)
    /\ call' = [call EXCEPT ![t] = [NoCall EXCEPT !.op = "createProcessGroupCCL",
                                                  !.rank = rank, !.size = size]]
    /\ pc' = [pc EXCEPT ![t] = "once"]
    /\ UNCHANGED <<config, ret, globalMutex, substrateState, groups, handles,
                   process>>

\* A creation that does not look at the rank and size it is given.
rankAndSizeAgree_unchecked(rank, size) == TRUE

\* The two TORCH_CHECKs of createProcessGroupCCL against globalComm.
rankAndSizeAgree(rank, size) ==
    /\ (rank = -1) \/ (rank = cclRank)
    /\ (size = -1) \/ (size = WorldSize)

\* createProcessGroupCCL after cclInitOnce(): the checks, then the constructor
\* up to its lock.
afterInitOnce(t) ==
    IF rankAndSizeAgree(call[t].rank, call[t].size)
    THEN pc' = [pc EXCEPT ![t] = "ctor_lock"] /\ ret' = ret
    ELSE Throws(t, "validation", "check")

\* A once-flag that is never found set.
OnceFlagSet_never == FALSE

\* std::call_once's test of cclInitOnceFlag: an earlier call completed.
OnceFlagSet == cclInitOnceFlag = "done"

\* std::call_once(cclInitOnceFlag, ...): a thread that finds the flag set goes
\* on, one that finds it idle runs the body and enters create_communicator(),
\* one that finds the body running waits.
cclInitOnce(t) ==
    /\ Alive
    /\ pc[t] = "once"
    /\ cclInitOnceFlag # "running"
    /\ IF OnceFlagSet
       THEN /\ afterInitOnce(t)
            /\ UNCHANGED <<cclInitOnceFlag, call>>
       ELSE /\ cclInitOnceFlag' = "running"
            /\ pc' = [pc EXCEPT ![t] = "init_create"]
            /\ call' = [call EXCEPT ![t].entered = Append(@, "create_global")]
            /\ ret' = ret
    /\ UNCHANGED <<config, globalMutex, globalComm, initRuns, atexitHandlers,
                   groups, handles, process>>

\* The body of the once-call after create_communicator(): the substrate raised
\* (the flag stays unset); or globalComm is assigned and std::atexit(cclFini)
\* either registers the handler, which completes the once-call, or fails, which
\* throws and leaves the flag unset.
cclInitOnceBody(t) ==
    /\ Alive
    /\ pc[t] = "init_create"
    /\ \/ /\ cclInitOnceFlag' = "idle"
          /\ (\E raised \in SubstrateRaises : Throws(t, CCL_CHECK(raised), "substrate"))
          /\ UNCHANGED <<globalComm, initRuns, atexitHandlers>>
       \/ /\ initRuns < MaxInitRuns
          /\ globalComm' = TRUE
          /\ initRuns' = initRuns + 1
          /\ \/ /\ atexitHandlers' = atexitHandlers + 1
                /\ cclInitOnceFlag' = "done"
                /\ afterInitOnce(t)
             \/ /\ initRuns + 1 < MaxInitRuns
                /\ atexitHandlers' = atexitHandlers
                /\ cclInitOnceFlag' = "idle"
                /\ Throws(t, "atexit_failed", "state")
    /\ UNCHANGED <<config, call, globalMutex, groups, handles, process>>

\* ProcessGroupCCL(rank, size): the lock is acquired and the group's
\* create_communicator() entered.  (A run makes no more than MaxGroups groups
\* at a time.)
ProcessGroupCCL_lock(t) ==
    /\ Alive
    /\ pc[t] = "ctor_lock"
    /\ MutexFree
    /\ FreeGroups # {}
    /\ globalMutex' = t
    /\ pc' = [pc EXCEPT ![t] = "ctor_create"]
    /\ call' = [call EXCEPT ![t].locked = TRUE,
                            ![t].entered = Append(@, "create_comm")]
    /\ UNCHANGED <<config, ret, substrateState, groups, handles, process>>

\* ProcessGroupCCL(rank, size): comm is assigned, or the substrate raised and no
\* group is made.  The base class is given globalComm's rank and size.
ProcessGroupCCL_ctor(t) ==
    /\ Alive
    /\ pc[t] = "ctor_create"
    /\ globalLock_released
    /\ \/ /\ (\E raised \in SubstrateRaises : Throws(t, CCL_CHECK(raised), "substrate"))
          /\ UNCHANGED groups
       \/ \E g \in FreeGroups :
             /\ \A k \in FreeGroups : g <= k
             /\ groups' = [groups EXCEPT ![g] = [state |-> "live",
                                                 rank |-> cclRank,
                                                 size |-> WorldSize]]
             /\ pc' = [pc EXCEPT ![t] = "returned"]
             /\ ret' = [ret EXCEPT ![t] = [value |-> "group", error |-> "none",
                                           cause |-> "none", h |-> 0]]
    /\ call' = [call EXCEPT ![t].pg =
                    IF groups' = groups THEN 0
                    ELSE CHOOSE g \in Groups : groups'[g] # groups[g]]
    /\ UNCHANGED <<config, substrateState, handles, process>>

\* The threads inside a call on group g.
GroupUsers(g) == {u \in Threads : pc[u] # "idle" /\ call[u].pg = g}

\* ~ProcessGroupCCL(): run by the thread that drops the last reference, up to
\* the lock.
ProcessGroupCCL_destroy(t, g) ==
    /\ Ready(t)
    /\ groups[g].state = "live"
    /\ GroupUsers(g) = {}
    /\ call' = [call EXCEPT ![t] = [NoCall EXCEPT !.op = "~ProcessGroupCCL",
                                                  !.pg = g]]
    /\ pc' = [pc EXCEPT ![t] = "dtor_lock"]
    /\ UNCHANGED <<config, ret, globalMutex, substrateState, groups, handles,
                   process>>

\* ~ProcessGroupCCL(): the lock is acquired and comm.reset() entered.
ProcessGroupCCL_dtorLock(t) ==
    /\ Alive
    /\ pc[t] = "dtor_lock"
    /\ MutexFree
    /\ globalMutex' = t
    /\ pc' = [pc EXCEPT ![t] = "dtor_reset"]
    /\ call' = [call EXCEPT ![t].locked = TRUE,
                            ![t].entered = Append(@, "release_comm")]
    /\ UNCHANGED <<config, ret, substrateState, groups, handles, process>>

\* ~ProcessGroupCCL(): comm is released, the lock too.
ProcessGroupCCL_dtor(t) ==
    /\ Alive
    /\ pc[t] = "dtor_reset"
    /\ globalLock_released
    /\ groups' = [groups EXCEPT ![call[t].pg] = NoGroup]
    /\ Returns(t, "void", 0)
    /\ UNCHANGED <<config, call, substrateState, handles, process>>

\* The process exits normally: the handlers registered with std::atexit run on
\* the exiting thread; cclFini() up to its lock.
processExit(t) ==
    /\ Ready(t)
    /\ IF atexitHandlers > 0
       THEN /\ process' = "exiting"
            /\ pc' = [pc EXCEPT ![t] = "fini_lock"]
            /\ call' = [call EXCEPT ![t] = [NoCall EXCEPT !.op = "cclFini"]]
       ELSE /\ process' = "exited"
            /\ UNCHANGED <<pc, call>>
    /\ UNCHANGED <<config, ret, globalMutex, substrateState, groups, handles>>

\* cclFini(): the lock is acquired and globalComm.reset() entered.
cclFiniLock(t) ==
    /\ Alive
    /\ pc[t] = "fini_lock"
    /\ MutexFree
    /\ globalMutex' = t
    /\ pc' = [pc EXCEPT ![t] = "fini_reset"]
    /\ call' = [call EXCEPT ![t].locked = TRUE,
                            ![t].entered = Append(@, "release_global")]
    /\ UNCHANGED <<config, ret, substrateState, groups, handles, process>>

\* cclFini(): globalComm is released, the lock too, and the process is gone.
cclFini(t) ==
    /\ Alive
    /\ pc[t] = "fini_reset"
    /\ globalLock_released
    /\ globalComm' = FALSE
    /\ process' = "exited"
    /\ Returns(t, "void", 0)
    /\ UNCHANGED <<config, call, cclInitOnceFlag, initRuns, atexitHandlers,
                   groups, handles>>

\* ---------------------------------------------------------------- dispatch
\* The threads inside a dispatch that passed validation: each will make a handle.
Dispatching == {u \in Threads : pc[u] \in {"lock", "in_coll", "sync_wait"}}

\* A run holds no more handles at a time than it has caller threads.
CanDispatch(t, g) ==
    /\ Ready(t)
    /\ groups[g].state = "live"
    /\ Cardinality({h \in Handles : handles[h].state # "unused"})
         + Cardinality(Dispatching) < Cardinality(callers)

\* The call record of a dispatch on group g.
Dispatch(op, g) == [NoCall EXCEPT !.op = op, !.pg = g]

\* A TORCH_CHECK failed: the call throws before its lock.
Reject(t, c) ==
    /\ call' = [call EXCEPT ![t] = c]
    /\ Throws(t, "validation", "check")
    /\ UNCHANGED <<config, globalMutex, substrateState, groups, handles, process>>

\* The checks passed: the call goes on to std::unique_lock globalLock.
Proceed(t, c) ==
    /\ call' = [call EXCEPT ![t] = c]
    /\ pc' = [pc EXCEPT ![t] = "lock"]
    /\ UNCHANGED <<config, ret, globalMutex, substrateState, groups, handles,
                   process>>

\* A write through operator[] past the end of a count table: the process
\* crashes, or the write lands somewhere and the call goes on.
OutOfBoundsWrite(t, c) ==
    \/ /\ process' = "crashed"
       /\ call' = [call EXCEPT ![t] = [c EXCEPT !.oob = TRUE]]
       /\ UNCHANGED <<config, pc, ret, globalMutex, substrateState, groups, handles>>
    \/ Proceed(t, [c EXCEPT !.oob = TRUE])

\* The table lookups in the arguments of the substrate call: one of them throws.
lookupThrows(c) ==
    \/ c.dtypeKey # "none" /\ atThrows(cclDatatypes, c.dtypeKey)
    \/ c.reduceOp # "none" /\ atThrows(cclOps, c.reduceOp)

\* A handle that holds a request whatever call made it.
NewWork_alwaysRequest(c, done) ==
    [state |-> "live", req |-> TRUE, done |-> done,
     tensors |-> c.keep, lent |-> c.lent]

\* A handle made without the buffers of its call.
NewWork_noTensors(c, done) ==
    [state |-> "live", req |-> c.prim # "barrier",
     done |-> done \/ c.prim = "barrier",
     tensors |-> {}, lent |-> c.lent]

\* std::make_shared<WorkCCL>(req, tensors) for the call c; barrier makes
\* WorkCCL(), which has no request.
NewWork(c, done) ==
    [state |-> "live", req |-> c.prim # "barrier",
     done |-> done \/ c.prim = "barrier",
     tensors |-> c.keep, lent |-> c.lent]

MakeWork(t, done) ==
    \E h \in Handles :
        /\ handles[h].state = "unused"
        /\ \A k \in Handles : handles[k].state = "unused" => h <= k
        /\ handles' = [handles EXCEPT ![h] = NewWork(call[t], done)]
        /\ Returns(t, "work", h)

\* The lock is acquired; CCL_CHECK evaluates the arguments of the substrate
\* call: a lookup throws, which CCL_CHECK's catch (...) rethrows with the lock
\* released by unwinding, or the substrate primitive is entered.
dispatchLock(t) ==
    /\ Alive
    /\ pc[t] = "lock"
    /\ MutexFree
    /\ IF lookupThrows(call[t])
       THEN /\ Throws(t, CCL_CHECK("other"), "lookup")
            /\ call' = [call EXCEPT ![t].locked = TRUE]
            /\ UNCHANGED globalMutex
       ELSE /\ globalMutex' = t
            /\ pc' = [pc EXCEPT ![t] = "in_coll"]
            /\ call' = [call EXCEPT ![t].locked = TRUE,
                                    ![t].entered = Append(@, call[t].prim)]
            /\ ret' = ret
    /\ UNCHANGED <<config, substrateState, groups, handles, process>>

\* The substrate primitive returns its request or raises (CCL_CHECK rethrows);
\* a call that must copy results back enters req->wait(), the others make the
\* handle and return, releasing the lock.
dispatchIssued(t) ==
    /\ Alive
    /\ pc[t] = "in_coll"
    /\ \/ /\ (\E raised \in SubstrateRaises : Throws(t, CCL_CHECK(raised), "substrate"))
          /\ globalLock_released
          /\ UNCHANGED <<call, handles>>
       \/ /\ call[t].sync
          /\ pc' = [pc EXCEPT ![t] = "sync_wait"]
          /\ call' = [call EXCEPT ![t].entered = Append(@, "wait")]
          /\ UNCHANGED <<ret, globalMutex, handles>>
       \/ /\ ~call[t].sync
          /\ MakeWork(t, FALSE)
          /\ globalLock_released
          /\ UNCHANGED call
    /\ UNCHANGED <<config, substrateState, groups, process>>

\* req->wait() inside the dispatch (not under CCL_CHECK) returns, the results
\* are copied to the outputs and the handle is made with req; or it raises and
\* the substrate's own exception leaves the call.
dispatchWaited(t) ==
    /\ Alive
    /\ pc[t] = "sync_wait"
    /\ globalLock_released
    /\ \/ /\ Throws(t, "ccl_raw", "substrate")
          /\ UNCHANGED <<call, handles>>
       \/ /\ call' = [call EXCEPT ![t].copies = @ \o call[t].back]
          /\ MakeWork(t, TRUE)
    /\ UNCHANGED <<config, substrateState, groups, process>>

\* -------------------------------------------------------------- operations
\* broadcast(tensors, opts)
broadcast(t, g, tensors, rootRank) ==
    /\ CanDispatch(t, g)
    /\ LET c == [Dispatch("broadcast", g) EXCEPT !.root = rootRank]
       IN IF checkSingleTensor(tensors) /\ checkRank(rootRank, groups[g].size)
          THEN Proceed(t, [c EXCEPT !.prim = "bcast",
                                    !.dtypeKey = tensors[1].dtype,
                                    !.lent = {tensors[1]},
                                    !.keep = {tensors[1]}])
          ELSE Reject(t, c)

\* allreduce(tensors, opts)
allreduce(t, g, tensors, reduceOp) ==
    /\ CanDispatch(t, g)
    /\ LET c == [Dispatch("allreduce", g) EXCEPT !.reduceOp = reduceOp]
       IN IF checkSingleTensor(tensors)
          THEN Proceed(t, [c EXCEPT !.prim = "allreduce",
                                    !.dtypeKey = tensors[1].dtype,
                                    !.lent = {tensors[1]},
                                    !.keep = {tensors[1]}])
          ELSE Reject(t, c)

\* reduce(tensors, opts)
reduce(t, g, tensors, rootRank, reduceOp) ==
    /\ CanDispatch(t, g)
    /\ LET c == [Dispatch("reduce", g)
                   EXCEPT !.root = rootRank, !.reduceOp = reduceOp]
       IN IF checkSingleTensor(tensors) /\ checkRank(rootRank, groups[g].size)
          THEN Proceed(t, [c EXCEPT !.prim = "reduce",
                                    !.dtypeKey = tensors[1].dtype,
                                    !.lent = {tensors[1]},
                                    !.keep = {tensors[1]}])
          ELSE Reject(t, c)

\* A slice that is always the first one.
flatOutputSlice_first(flat, i, n) == [flat EXCEPT !.numel = n, !.offset = 0]

\* flatOutputTensor[i]: the i-th row of the buffer made by newLikeFlat.
flatOutputSlice(flat, i, n) == [flat EXCEPT !.numel = n, !.offset = (i - 1) * n]

\* tensor.view({-1}): the same memory as one dimension.
viewFlat(tensor) == [tensor EXCEPT !.dim0 = tensor.numel]

\* flat.split_with_sizes(counts, 0): slice i starts where the slices before it end.
splitWithSizes(flat, counts) ==
    [i \in DOMAIN counts |->
        [flat EXCEPT !.numel = counts[i], !.dim0 = counts[i],
                     !.offset = flat.offset + SumSeq(SubSeq(counts, 1, i - 1))]]

\* Copies made in reverse: slice i paired with buffer size_ + 1 - i.
copyEach_reversed(size_, dsts, srcs) ==
    [i \in 1..size_ |-> [src |-> srcs[size_ + 1 - i], dst |-> dsts[i]]]

\* for (i = 0; i < size_; i++) dsts[i].copy_(srcs[i])
copyEach(size_, dsts, srcs) ==
    [i \in 1..size_ |-> [src |-> srcs[i], dst |-> dsts[i]]]

\* A table with the count in every slot.
rootCount_everySlot(size_, rootRank, count) == [i \in 1..size_ |-> count]

\* A table of size_ counts, all zero but the root's; a root out of range
\* leaves the table as it was made.
rootCount(size_, rootRank, count) ==
    [i \in 1..size_ |-> IF i = rootRank + 1 THEN count ELSE 0]

\* newLikeFlat(tensors) of c10d's Utils: one new dense buffer for all of them.
newLikeFlat(tensors) ==
    at_empty(Len(tensors) * tensors[1].numel, tensors[1], "newLikeFlat")

\* allgather(outputTensors, inputTensors, opts).  With USE_VECTOR_ALLGATHERV the
\* substrate writes the output buffers and the handle keeps them and the input;
\* without it the substrate writes flatOutputTensor, the call waits, copies and
\* keeps nothing.
allgather(t, g, outputTensors, inputTensors) ==
    /\ CanDispatch(t, g)
    /\ LET c == Dispatch("allgather", g)
       IN IF /\ checkSingleTensor(inputTensors)
             /\ Len(outputTensors) = 1
             /\ groups[g].size = Len(outputTensors[1])
             /\ checkSameSizeAndType(inputTensors[1], outputTensors[1])
          THEN Proceed(t, [c EXCEPT
                 !.prim = "allgatherv",
                 !.dtypeKey = inputTensors[1].dtype,
                 !.sync = ~vectorAllgatherv,
                 !.lent = IF vectorAllgatherv
                          THEN Range(outputTensors[1]) \cup {inputTensors[1]}
                          ELSE {newLikeFlat(outputTensors[1]), inputTensors[1]},
                 !.keep = IF vectorAllgatherv
                          THEN Range(outputTensors[1]) \cup {inputTensors[1]}
                          ELSE {},
                 !.back = IF vectorAllgatherv THEN <<>>
                          ELSE copyEach(groups[g].size, outputTensors[1],
                                 [i \in 1..groups[g].size |->
                                    flatOutputSlice(newLikeFlat(outputTensors[1]),
                                                    i, inputTensors[1].numel)])])
          ELSE Reject(t, c)

\* The checks of gather on its buffers, up to sendCounts[opts.rootRank] = ...
gatherChecks(rank_, size_, outputTensors, inputTensors, rootRank) ==
    /\ checkSingleTensor(inputTensors)
    /\ IF rank_ # rootRank
       THEN Len(outputTensors) = 0
       ELSE /\ Len(outputTensors) = 1
            /\ size_ = Len(outputTensors[1])
            /\ checkSameSizeAndType(inputTensors[1], outputTensors[1])

\* gather(outputTensors, inputTensors, opts) from the count tables on.
gatherPlan(c, rank_, size_, outputTensors, inputTensors) ==
    LET input == inputTensors[1]
        isRoot == rank_ = c.root
        flat == computeLengthsAndCheckAndGetFlat(outputTensors[1], size_, "gather")
        flatOutput == IF isRoot THEN flat.flatTensor
                      ELSE at_empty(0, input, "gather")
        isOutputFlat == isRoot /\ flat.isFlat
    IN [c EXCEPT !.prim = "alltoallv",
                 !.dtypeKey = flatOutput.dtype,
                 !.sync = isRoot /\ ~isOutputFlat,
                 !.lent = {input, flatOutput},
                 !.keep = IF isRoot
                          THEN IF isOutputFlat THEN {flatOutput, input} ELSE {}
                          ELSE {input},
                 !.sendCounts = rootCount(size_, c.root, input.numel),
                 !.recvCounts = IF isRoot THEN flat.lengths
                                ELSE rootCount(size_, c.root, 0),
                 !.inputs = inputTensors,
                 !.outputs = IF isRoot THEN outputTensors[1] ELSE <<>>,
                 !.back = IF isRoot /\ ~isOutputFlat
                          THEN copyEach(size_,
                                 [i \in 1..size_ |-> viewFlat(outputTensors[1][i])],
                                 splitWithSizes(flatOutput, flat.lengths))
                          ELSE <<>>]

\* TORCH_CHECK(sendCounts[rank_] == recvCounts[rank_]) of gather's root.
gatherCountsAgree(rootRank, rank_, size_, outputTensors, inputTensors) ==
    rank_ = rootRank =>
        inputTensors[1].numel =
            computeLengthsAndCheckAndGetFlat(outputTensors[1], size_, "gather")
                .lengths[rank_ + 1]

\* gather(outputTensors, inputTensors, opts): no check of opts.rootRank is made
\* before it indexes sendCounts.
gather(t, g, outputTensors, inputTensors, rootRank) ==
    /\ CanDispatch(t, g)
    /\ LET c == [Dispatch("gather", g)
                   EXCEPT !.root = rootRank]
           rank_ == groups[g].rank
           size_ == groups[g].size
       IN IF ~gatherChecks(rank_, size_, outputTensors, inputTensors, rootRank)
          THEN Reject(t, c)
          ELSE IF rootRank \notin 0..(size_ - 1)
          THEN OutOfBoundsWrite(t, gatherPlan(c, rank_, size_, outputTensors,
                                              inputTensors))
          ELSE IF ~gatherCountsAgree(rootRank, rank_, size_, outputTensors,
                                     inputTensors)
          THEN Reject(t, c)
          ELSE Proceed(t, gatherPlan(c, rank_, size_, outputTensors, inputTensors))

\* The checks of scatter on its buffers, up to recvCounts[opts.rootRank] = ...
scatterChecks(rank_, size_, outputTensors, inputTensors, rootRank) ==
    /\ checkSingleTensor(outputTensors)
    /\ IF rank_ # rootRank
       THEN Len(inputTensors) = 0
       ELSE /\ Len(inputTensors) = 1
            /\ size_ = Len(inputTensors[1])
            /\ checkSameSizeAndType(outputTensors[1], inputTensors[1])

\* scatter(outputTensors, inputTensors, opts) from the count tables on.
scatterPlan(c, rank_, size_, outputTensors, inputTensors) ==
    LET output == outputTensors[1]
        isRoot == rank_ = c.root
        flat == computeLengthsAndCheckAndGetFlat(inputTensors[1], size_, "scatter")
        flatInput == IF isRoot THEN flat.flatTensor
                     ELSE at_empty(0, output, "scatter")
    IN [c EXCEPT !.prim = "alltoallv",
                 !.dtypeKey = flatInput.dtype,
                 !.lent = {flatInput, output},
                 !.keep = IF isRoot THEN {output, flatInput} ELSE {output},
                 !.sendCounts = IF isRoot THEN flat.lengths
                                ELSE rootCount(size_, c.root, 0),
                 !.recvCounts = rootCount(size_, c.root, output.numel),
                 !.inputs = IF isRoot THEN inputTensors[1] ELSE <<>>,
                 !.outputs = outputTensors,
                 !.copies = IF isRoot /\ ~flat.isFlat
                            THEN copyEach(size_,
                                   splitWithSizes(flatInput, flat.lengths),
                                   [i \in 1..size_ |-> viewFlat(inputTensors[1][i])])
                            ELSE <<>>]

\* TORCH_CHECK(recvCounts[rank_] == sendCounts[rank_]) of scatter's root.
scatterCountsAgree(rootRank, rank_, size_, outputTensors, inputTensors) ==
    rank_ = rootRank =>
        outputTensors[1].numel =
            computeLengthsAndCheckAndGetFlat(inputTensors[1], size_, "scatter")
                .lengths[rank_ + 1]

\* scatter(outputTensors, inputTensors, opts): no check of opts.rootRank is made
\* before it indexes recvCounts.
scatter(t, g, outputTensors, inputTensors, rootRank) ==
    /\ CanDispatch(t, g)
    /\ LET c == [Dispatch("scatter", g)
                   EXCEPT !.root = rootRank]
           rank_ == groups[g].rank
           size_ == groups[g].size
       IN IF ~scatterChecks(rank_, size_, outputTensors, inputTensors, rootRank)
          THEN Reject(t, c)
          ELSE IF rootRank \notin 0..(size_ - 1)
          THEN OutOfBoundsWrite(t, scatterPlan(c, rank_, size_, outputTensors,
                                               inputTensors))
          ELSE IF ~scatterCountsAgree(rootRank, rank_, size_, outputTensors,
                                      inputTensors)
          THEN Reject(t, c)
          ELSE Proceed(t, scatterPlan(c, rank_, size_, outputTensors, inputTensors))

\* The checks of alltoall_base: the fixed all-to-all when both split lists are
\* empty, the variable one otherwise.
alltoallBaseChecks(size_, outputTensor, inputTensor, outputSplitSizes, inputSplitSizes) ==
    /\ checkSingleTensorHelper(inputTensor)
    /\ checkSingleTensorHelper(outputTensor)
    /\ IF Len(outputSplitSizes) = 0 /\ Len(inputSplitSizes) = 0
       THEN /\ outputTensor.numel = inputTensor.numel
            /\ outputTensor.dtype = inputTensor.dtype
            /\ outputTensor.dim0 % size_ = 0
       ELSE /\ checkSplitSizes(inputSplitSizes, inputTensor, size_)
            /\ checkSplitSizes(outputSplitSizes, outputTensor, size_)

\* int64_t * size_t: the split size is converted to size_t, where a negative
\* one is its value plus 2^64, and the product is taken modulo 2^64.
mulSizeT(split, len) ==
    Wide(split.lo * len, split.hi * len,
         IF split.hi = 0 /\ split.lo * len < 0 THEN 1 ELSE 0)

\* alltoall_base: one side's count table of the variable all-to-all.  len is
\* inLen or outLen: numel(), divided unless it is 0 by size_ or by size(0).
splitCounts(splitSizes, tensor, size_) ==
    LET splitsEqual == Len(splitSizes) = 0
        len == IF tensor.numel # 0
               THEN tensor.numel \div (IF splitsEqual THEN size_ ELSE tensor.dim0)
               ELSE 0
    IN [i \in 1..size_ |->
           IF splitsEqual THEN Wide(len, 0, 0) ELSE mulSizeT(splitSizes[i], len)]

\* alltoall_base: the counts the substrate is given, send then receive: the one
\* count of the fixed all-to-all for every rank, or the two tables.
alltoallBaseCounts(size_, outputTensor, inputTensor, outputSplitSizes, inputSplitSizes) ==
    IF Len(outputSplitSizes) = 0 /\ Len(inputSplitSizes) = 0
    THEN LET count == Wide(outputTensor.numel \div size_, 0, 0)
         IN [send |-> [i \in 1..size_ |-> count],
             recv |-> [i \in 1..size_ |-> count]]
    ELSE [send |-> splitCounts(inputSplitSizes, inputTensor, size_),
          recv |-> splitCounts(outputSplitSizes, outputTensor, size_)]

\* alltoall_base(outputTensor, inputTensor, outputSplitSizes, inputSplitSizes, opts)
alltoall_base(t, g, outputTensor, inputTensor, outputSplitSizes, inputSplitSizes) ==
    /\ CanDispatch(t, g)
    /\ LET c == Dispatch("alltoall_base", g)
       IN IF alltoallBaseChecks(groups[g].size, outputTensor, inputTensor,
                                outputSplitSizes, inputSplitSizes)
          THEN Proceed(t, [c EXCEPT
                 !.prim = IF Len(outputSplitSizes) = 0 /\ Len(inputSplitSizes) = 0
                          THEN "alltoall" ELSE "alltoallv",
                 !.dtypeKey = outputTensor.dtype,
                 !.lent = {inputTensor, outputTensor},
                 !.keep = {inputTensor, outputTensor}])
          ELSE Reject(t, c)

\* The checks of alltoall on its two lists.
alltoallChecks(size_, outputTensors, inputTensors) ==
    /\ Len(inputTensors) = size_
    /\ Len(outputTensors) = size_
    /\ checkSameType(outputTensors[1], inputTensors)
    /\ checkSameType(inputTensors[1], outputTensors)

\* alltoall(outputTensors, inputTensors, opts)
alltoall(t, g, outputTensors, inputTensors) ==
    /\ CanDispatch(t, g)
    /\ LET c == Dispatch("alltoall", g)
           size_ == groups[g].size
           in == computeLengthsAndCheckAndGetFlat(inputTensors, size_, "alltoall_in")
           out == computeLengthsAndCheckAndGetFlat(outputTensors, size_, "alltoall_out")
       IN IF alltoallChecks(size_, outputTensors, inputTensors)
          THEN Proceed(t, [c EXCEPT
                 !.prim = "alltoallv",
                 !.dtypeKey = out.flatTensor.dtype,
                 !.sync = ~out.isFlat,
                 !.lent = {in.flatTensor, out.flatTensor},
                 !.keep = IF out.isFlat THEN {out.flatTensor, in.flatTensor}
                          ELSE {},
                 !.sendCounts = in.lengths,
                 !.recvCounts = out.lengths,
                 !.inputs = inputTensors,
                 !.outputs = outputTensors,
                 !.copies = IF in.isFlat THEN <<>>
                            ELSE copyEach(size_,
                                   splitWithSizes(in.flatTensor, in.lengths),
                                   [i \in 1..size_ |-> viewFlat(inputTensors[i])]),
                 !.back = IF out.isFlat THEN <<>>
                          ELSE copyEach(size_,
                                 [i \in 1..size_ |-> viewFlat(outputTensors[i])],
                                 splitWithSizes(out.flatTensor, out.lengths))])
          ELSE Reject(t, c)

\* barrier(opts)
barrier(t, g) ==
    /\ CanDispatch(t, g)
    /\ Proceed(t, [Dispatch("barrier", g) EXCEPT !.prim = "barrier"])

\* allreduce_coalesced, allgather_base, allgather_coalesced, reduce_scatter,
\* send, recv, recvAnysource: throw std::runtime_error("... does not support ...").
Unsupported ==
    {"allreduce_coalesced", "allgather_base", "allgather_coalesced",
     "reduce_scatter", "send", "recv", "recvAnysource"}

\* An unsupported operation that is handed on to the substrate.
unsupported_dispatched(t, g, op) ==
    /\ Ready(t)
    /\ groups[g].state = "live"
    /\ Proceed(t, [Dispatch(op, g) EXCEPT !.prim = "allreduce"])

unsupported(t, g, op) ==
    /\ Ready(t)
    /\ groups[g].state = "live"
    /\ call' = [call EXCEPT ![t] = Dispatch(op, g)]
    /\ Throws(t, "not_supported", "state")
    /\ UNCHANGED <<config, globalMutex, substrateState, groups, handles, process>>

\* ------------------------------------------------------------------ inputs
\* The buffers the calls are made with.
Good == Tensor(WorldSize, "kFloat", "dense", <<"in", 0>>, 0)
Out == Tensor(WorldSize, "kFloat", "dense", <<"out", 0>>, 0)
Strided == [Good EXCEPT !.layout = "strided"]
Sparse == [Good EXCEPT !.layout = "sparse"]
Cuda == [Good EXCEPT !.layout = "cuda"]
Half == [Good EXCEPT !.dtype = "kHalf"]
Big == [Out EXCEPT !.numel = WorldSize + 1, !.dim0 = WorldSize + 1]

\* One buffer per rank: slices of one allocation in rank order, and buffers in
\* allocations of their own.
FlatList(ty, n) ==
    [i \in 1..WorldSize |-> Tensor(n, ty, "dense", <<"flat", 0>>, n * (i - 1))]
OwnList(ty, n) ==
    [i \in 1..WorldSize |-> Tensor(n, ty, "dense", <<"own", i>>, 0)]
ShortList == SubSeq(FlatList("kFloat", WorldSize), 1, WorldSize - 1)
StridedList == [i \in 1..WorldSize |-> Strided]
\* A first buffer of no elements in an allocation of its own, then slices of one.
ZeroLedList ==
    [i \in 1..WorldSize |->
        IF i = 1 THEN Tensor(0, "kFloat", "dense", <<"own", 1>>, 0)
        ELSE Tensor(WorldSize, "kFloat", "dense", <<"flat", 0>>, WorldSize * (i - 2))]

SingleChoices ==
    Choices({<<>>, <<Good>>, <<Good, Good>>, <<Strided>>, <<Sparse>>, <<Cuda>>,
             <<Half>>},
            {<<Good>>})
RootChoices == Choices((-1)..WorldSize, {0})
ReduceOpChoices == Choices({"SUM", "BAND"}, {"SUM"})

BroadcastArgs ==
    {<<ts, 0>> : ts \in SingleChoices} \cup {<<<<Good>>, r>> : r \in RootChoices}
AllreduceArgs ==
    {<<ts, "SUM">> : ts \in SingleChoices}
        \cup {<<<<Good>>, op>> : op \in ReduceOpChoices}
ReduceArgs ==
    {<<ts, 0, "SUM">> : ts \in SingleChoices}
        \cup {<<<<Good>>, r, op>> : r \in RootChoices, op \in ReduceOpChoices}

\* The lists of lists that allgather and gather take as outputs and scatter as
\* inputs.
ListsChoices ==
    Choices({<<>>, <<FlatList("kFloat", WorldSize)>>, <<OwnList("kFloat", WorldSize)>>,
             <<FlatList("kFloat", WorldSize), FlatList("kFloat", WorldSize)>>,
             <<ShortList>>, <<FlatList("kFloat", WorldSize + 1)>>, <<StridedList>>},
            {<<>>, <<FlatList("kFloat", WorldSize)>>, <<OwnList("kFloat", WorldSize)>>})
AllgatherArgs ==
    {<<ls, <<Good>>>> : ls \in ListsChoices}
        \cup Choices({<<<<FlatList("kFloat", WorldSize)>>, <<>>>>,
                      <<<<FlatList("kHalf", WorldSize)>>, <<Half>>>>}, {})
GatherArgs ==
    {<<ls, <<Good>>, r>> : ls \in ListsChoices, r \in RootChoices}
        \cup Choices({<<<<>>, <<>>, 0>>, <<<<>>, <<Half>>, 0>>,
                      <<<<FlatList("kHalf", WorldSize)>>, <<Half>>, 0>>,
                      <<<<>>, <<Half>>, 1>>}, {})
ScatterArgs ==
    {<<<<Out>>, ls, r>> : ls \in ListsChoices, r \in RootChoices}
        \cup Choices({<<<<>>, <<>>, 0>>, <<<<Half>>, <<>>, 0>>,
                      <<<<Half>>, <<FlatList("kHalf", WorldSize)>>, 0>>,
                      <<<<Half>>, <<>>, 1>>}, {})

EvenSplit == [i \in 1..WorldSize |-> Wide(1, 0, 0)]
AlltoallBaseArgs ==
    Choices({<<Out, Good, <<>>, <<>>>>, <<Big, Good, <<>>, <<>>>>,
             <<Big, Big, <<>>, <<>>>>, <<Out, Half, <<>>, <<>>>>,
             <<Half, Half, <<>>, <<>>>>, <<Out, Strided, <<>>, <<>>>>,
             <<Out, Good, EvenSplit, EvenSplit>>, <<Out, Good, <<>>, EvenSplit>>,
             <<Out, Good, Tail(EvenSplit), <<>>>>, <<Big, Good, EvenSplit, <<>>>>,
             <<Half, Good, EvenSplit, EvenSplit>>},
            {<<Out, Good, <<>>, <<>>>>, <<Out, Good, EvenSplit, EvenSplit>>})
AlltoallArgs ==
    Choices({<<FlatList("kFloat", 1), OwnList("kFloat", 1)>>,
             <<OwnList("kFloat", 1), FlatList("kFloat", 1)>>,
             <<ZeroLedList, ZeroLedList>>,
             <<OwnList("kFloat", 2), OwnList("kFloat", 2)>>,
             <<ShortList, FlatList("kFloat", 1)>>,
             <<FlatList("kFloat", 1), ShortList>>,
             <<FlatList("kFloat", 1), FlatList("kHalf", 1)>>,
             <<FlatList("kHalf", 1), FlatList("kHalf", 1)>>,
             <<FlatList("kFloat", 1), StridedList>>},
            {<<FlatList("kFloat", 1), OwnList("kFloat", 1)>>,
             <<OwnList("kFloat", 1), FlatList("kFloat", 1)>>})

\* ---------------------------------------------------------- specifications
Next ==
    \/ \E t \in Threads : Finish(t)
    \/ \E t \in Threads, h \in Handles : WorkCCL_destructor(t, h)
    \/ \E t \in Threads, h \in Handles : isCompleted(t, h)
    \/ \E t \in Threads : isCompletedLock(t)
    \/ \E t \in Threads : isCompletedTest(t)
    \/ \E t \in Threads, h \in Handles : isSuccess(t, h)
    \/ \E t \in Threads, h \in Handles : wait(t, h)
    \/ \E t \in Threads : waitLock(t)
    \/ \E t \in Threads : waitReturn(t)
    \/ \E t \in Threads, h \in Handles : abort(t, h)
    \/ \E h \in Handles : requestCompletes(h)
    \/ \E t \in Threads, r \in RankChoices, n \in SizeChoices :
          createProcessGroupCCL(t, r, n)
    \/ \E t \in Threads : cclInitOnce(t)
    \/ \E t \in Threads : cclInitOnceBody(t)
    \/ \E t \in Threads : ProcessGroupCCL_lock(t)
    \/ \E t \in Threads : ProcessGroupCCL_ctor(t)
    \/ \E t \in Threads, g \in Groups : ProcessGroupCCL_destroy(t, g)
    \/ \E t \in Threads : ProcessGroupCCL_dtorLock(t)
    \/ \E t \in Threads : ProcessGroupCCL_dtor(t)
    \/ \E t \in Threads : processExit(t)
    \/ \E t \in Threads : cclFiniLock(t)
    \/ \E t \in Threads : cclFini(t)
    \/ \E t \in Threads : dispatchLock(t)
    \/ \E t \in Threads : dispatchIssued(t)
    \/ \E t \in Threads : dispatchWaited(t)
    \/ \E t \in Threads, g \in Groups, a \in BroadcastArgs :
          broadcast(t, g, a[1], a[2])
    \/ \E t \in Threads, g \in Groups, a \in AllreduceArgs :
          allreduce(t, g, a[1], a[2])
    \/ \E t \in Threads, g \in Groups, a \in ReduceArgs :
          reduce(t, g, a[1], a[2], a[3])
    \/ \E t \in Threads, g \in Groups, a \in AllgatherArgs :
          allgather(t, g, a[1], a[2])
    \/ \E t \in Threads, g \in Groups, a \in GatherArgs :
          gather(t, g, a[1], a[2], a[3])
    \/ \E t \in Threads, g \in Groups, a \in ScatterArgs :
          scatter(t, g, a[1], a[2], a[3])
    \/ \E t \in Threads, g \in Groups, a \in AlltoallBaseArgs :
          alltoall_base(t, g, a[1], a[2], a[3], a[4])
    \/ \E t \in Threads, g \in Groups, a \in AlltoallArgs :
          alltoall(t, g, a[1], a[2])
    \/ \E t \in Threads, g \in Groups : barrier(t, g)
    \/ \E t \in Threads, g \in Groups, op \in Unsupported : unsupported(t, g, op)

\* One caller thread makes every kind of call.
Spec == Init /\ [][Next]_vars

\* Two caller threads interleave in the calls that take globalMutex: the Work
\* handle's methods, the construction and destruction of groups, the exit
\* handler, and the dispatch of an operation that returns at once (broadcast),
\* of one that waits in the call (allgather) and of barrier.  Every other
\* operation continues from its checks through the same dispatchLock,
\* dispatchIssued and dispatchWaited.
NextThreads ==
    \/ \E t \in Threads : Finish(t)
    \/ \E t \in Threads, h \in Handles : WorkCCL_destructor(t, h)
    \/ \E t \in Threads, h \in Handles : isCompleted(t, h)
    \/ \E t \in Threads : isCompletedLock(t)
    \/ \E t \in Threads : isCompletedTest(t)
    \/ \E t \in Threads, h \in Handles : wait(t, h)
    \/ \E t \in Threads : waitLock(t)
    \/ \E t \in Threads : waitReturn(t)
    \/ \E h \in Handles : requestCompletes(h)
    \/ \E t \in Threads, r \in RankChoices, n \in SizeChoices :
          createProcessGroupCCL(t, r, n)
    \/ \E t \in Threads : cclInitOnce(t)
    \/ \E t \in Threads : cclInitOnceBody(t)
    \/ \E t \in Threads : ProcessGroupCCL_lock(t)
    \/ \E t \in Threads : ProcessGroupCCL_ctor(t)
    \/ \E t \in Threads, g \in Groups : ProcessGroupCCL_destroy(t, g)
    \/ \E t \in Threads : ProcessGroupCCL_dtorLock(t)
    \/ \E t \in Threads : ProcessGroupCCL_dtor(t)
    \/ \E t \in Threads : processExit(t)
    \/ \E t \in Threads : cclFiniLock(t)
    \/ \E t \in Threads : cclFini(t)
    \/ \E t \in Threads : dispatchLock(t)
    \/ \E t \in Threads : dispatchIssued(t)
    \/ \E t \in Threads : dispatchWaited(t)
    \/ \E t \in Threads, g \in Groups, a \in BroadcastArgs :
          broadcast(t, g, a[1], a[2])
    \/ \E t \in Threads, g \in Groups, a \in AllgatherArgs :
          allgather(t, g, a[1], a[2])
    \/ \E t \in Threads, g \in Groups : barrier(t, g)

SpecThreads == InitThreads /\ [][NextThreads]_vars

\* ------------------------------------------------- the reconciler on its own
\* The buffers of a list: none, one or two elements, in one of two allocations,
\* at an offset in it.
RecBuffers ==
    {Tensor(n, "kFloat", "dense", <<st, 0>>, off) :
        n \in 0..2, st \in {"a", "b"}, off \in 0..4}

\* The lists the callers pass: one buffer per rank, lengths.size() of them.
RecLists == UNION {[1..n -> RecBuffers] : n \in 1..MaxLen}

InitReconciler ==
    /\ callers = {} /\ cclRank = 0 /\ InitCommon
    /\ recTensors \in RecLists
    /\ recResult = NoResult
    /\ a2aArgs = NoArgs /\ a2aResult = NoResult
    /\ ag = NoRanks
    /\ peers = NoRanks

\* computeLengthsAndCheckAndGetFlat(tensors, lengths, flatTensor) is called
\* with lengths.size() == tensors.size().
reconcile ==
    /\ ~recResult.called
    /\ LET r == computeLengthsAndCheckAndGetFlat(recTensors, Len(recTensors), "reconciler")
       IN recResult' = [called |-> TRUE, isFlat |-> r.isFlat,
                        lengths |-> r.lengths, flatTensor |-> r.flatTensor]
    /\ UNCHANGED <<callers, cclRank, vectorAllgatherv, pc, call, ret,
                   globalMutex, substrateState, groups, handles, process,
                   recTensors, a2aArgs, a2aResult, ag, peers>>

NextReconciler == reconcile

SpecReconciler == InitReconciler /\ [][NextReconciler]_vars

\* ------------------------------------- the counts of alltoall_base on their own
\* A buffer of dim0 rows of inner elements.
Shaped(dim0, inner, st) ==
    [Tensor(dim0 * inner, "kFloat", "dense", <<st, 0>>, 0) EXCEPT !.dim0 = dim0]

SplitBuffers(st) == {Shaped(d, n, st) : d \in {0, 2, 3, 4}, n \in 0..2}

\* Split sizes: -1, 1, 3 and 2^32 + 1.
SplitValues == {Wide(-1, 0, 0), Wide(1, 0, 0), Wide(3, 0, 0), Wide(1, 1, 0)}

\* Split lists: none, one entry per rank, one entry short.
SplitLists ==
    {<<>>} \cup [1..WorldSize -> SplitValues] \cup [1..(WorldSize - 1) -> SplitValues]

InitSplits ==
    /\ callers = {} /\ cclRank = 0 /\ InitCommon
    /\ recTensors = <<>> /\ recResult = NoResult
    /\ a2aArgs \in [size_ : {WorldSize},
                     outputTensor : SplitBuffers("out"),
                     inputTensor : SplitBuffers("in"),
                     outputSplitSizes : SplitLists,
                     inputSplitSizes : SplitLists]
    /\ a2aResult = NoResult
    /\ ag = NoRanks
    /\ peers = NoRanks

\* alltoall_base up to its substrate call: the checks, then the counts.
alltoallBasePrepare ==
    /\ ~a2aResult.called
    /\ LET a == a2aArgs
           ok == alltoallBaseChecks(a.size_, a.outputTensor, a.inputTensor,
                                    a.outputSplitSizes, a.inputSplitSizes)
       IN a2aResult' =
            IF ok
            THEN LET c == alltoallBaseCounts(a.size_, a.outputTensor, a.inputTensor,
                                             a.outputSplitSizes, a.inputSplitSizes)
                 IN [called |-> TRUE, accepted |-> TRUE,
                     sendCounts |-> c.send, recvCounts |-> c.recv]
            ELSE [called |-> TRUE, accepted |-> FALSE,
                  sendCounts |-> <<>>, recvCounts |-> <<>>]
    /\ UNCHANGED <<callers, cclRank, vectorAllgatherv, pc, call, ret,
                   globalMutex, substrateState, groups, handles, process,
                   recTensors, recResult, a2aArgs, ag, peers>>

NextSplits == alltoallBasePrepare

SpecSplits == InitSplits /\ [][NextSplits]_vars

\* ------------------------------------------------ allgather on every rank
\* Every rank of the group calls allgather with an input of ag.n elements and
\* WorldSize outputs; ag.mem[r] is the memory of rank r's outputs and of its
\* flatOutputTensor, ag.phase[r] where rank r's call is, ag.done[r] whether the
\* substrate completed rank r's request.

\* outputTensors[0] in one of three layouts: slices of one allocation in rank
\* order, allocations of their own, slices of one allocation in reverse order.
agOutputs(layout, n) ==
    [i \in 1..WorldSize |->
        CASE layout = "flat" -> Tensor(n, "kFloat", "dense", <<"out", 0>>, n * (i - 1))
          [] layout = "own" -> Tensor(n, "kFloat", "dense", <<"own", i>>, 0)
          [] OTHER -> Tensor(n, "kFloat", "dense", <<"out", 0>>, n * (WorldSize - i))]

\* inputTensors[0] of rank r and its elements.
agInput(r, n) == Tensor(n, "kFloat", "dense", <<"in", r>>, 0)

agData(r, n) == [k \in 1..n |-> <<r, k>>]

\* The memory of the outputs and of flatOutputTensor, not yet written.
agMemory(n) ==
    [c \in {<<st, k>> : st \in {<<"out", 0>>, <<"newLikeFlat", 0>>}
                                \cup {<<"own", i>> : i \in 1..WorldSize},
                        k \in 0..(n * WorldSize - 1)} |-> <<-1, 0>>]

\* Elements written from data_ptr() of a buffer on, and a buffer read.
WriteAt(m, tensor, data) ==
    [c \in DOMAIN m |->
        IF /\ c[1] = tensor.storage
           /\ c[2] >= tensor.offset /\ c[2] < tensor.offset + Len(data)
        THEN data[c[2] - tensor.offset + 1] ELSE m[c]]

ReadBuffer(m, tensor) ==
    [k \in 1..tensor.numel |-> m[<<tensor.storage, tensor.offset + k - 1>>]]

\* comm->allgatherv(send_buf, send_count, recv_buf(s), recv_counts, ...) as the
\* call relies on it: rank i's send_count elements arrive in recv_bufs[i] (vector
\* form), or in recv_buf after the counts of the ranks before i (flat form).
RECURSIVE allgathervWrites(_, _, _, _)
allgathervWrites(m, dests, n, i) ==
    IF i > WorldSize THEN m
    ELSE allgathervWrites(WriteAt(m, dests[i], agData(i - 1, n)), dests, n, i + 1)

\* outputTensors[0][i].copy_(flatOutputTensor[i]) for every i from position i on.
RECURSIVE copyBack(_, _, _, _, _)
copyBack(m, outs, flat, n, i) ==
    IF i > WorldSize THEN m
    ELSE copyBack(WriteAt(m, outs[i], ReadBuffer(m, flatOutputSlice(flat, i, n))),
                  outs, flat, n, i + 1)

InitAllgather ==
    /\ callers = {} /\ cclRank = 0 /\ InitCommon
    /\ recTensors = <<>> /\ recResult = NoResult
    /\ a2aArgs = NoArgs /\ a2aResult = NoResult
    /\ peers = NoRanks
    /\ \E n \in 1..2, layout \in [Ranks -> {"flat", "own", "reversed"}] :
          ag = [n |-> n, layout |-> layout,
                phase |-> [r \in Ranks |-> "idle"],
                done |-> [r \in Ranks |-> FALSE],
                mem |-> [r \in Ranks |-> agMemory(n)]]

\* Rank r calls allgather: the checks, then comm->allgatherv under the lock,
\* which returns the request; the vector build returns the handle, the other
\* one goes into req->wait().
agCall(r) ==
    /\ ag.phase[r] = "idle"
    /\ LET outs == agOutputs(ag.layout[r], ag.n)
           input == agInput(r, ag.n)
       IN IF /\ checkSingleTensor(<<input>>)
             /\ WorldSize = Len(outs)
             /\ checkSameSizeAndType(input, outs)
             /\ ~atThrows(cclDatatypes, input.dtype)
          THEN ag' = [ag EXCEPT !.phase[r] =
                          IF vectorAllgatherv THEN "returned" ELSE "sync_wait"]
          ELSE ag' = [ag EXCEPT !.phase[r] = "rejected"]
    /\ UNCHANGED <<callers, cclRank, vectorAllgatherv, pc, call, ret,
                   globalMutex, substrateState, groups, handles, process,
                   recTensors, recResult, a2aArgs, a2aResult, peers>>

\* The substrate completes rank r's request once every rank has made the call.
agSubstrate(r) ==
    /\ \A q \in Ranks : ag.phase[q] \in {"returned", "sync_wait", "waited"}
    /\ ~ag.done[r]
    /\ LET outs == agOutputs(ag.layout[r], ag.n)
           flat == newLikeFlat(outs)
           dests == IF vectorAllgatherv THEN outs
                    ELSE [i \in 1..WorldSize |-> flatOutputSlice(flat, i, ag.n)]
       IN ag' = [ag EXCEPT !.done[r] = TRUE,
                           !.mem[r] = allgathervWrites(@, dests, ag.n, 1)]
    /\ UNCHANGED <<callers, cclRank, vectorAllgatherv, pc, call, ret,
                   globalMutex, substrateState, groups, handles, process,
                   recTensors, recResult, a2aArgs, a2aResult, peers>>

\* req->wait() returned inside the call: the rows of flatOutputTensor are
\* copied to the outputs and the handle is returned.
agCopyBack(r) ==
    /\ ag.phase[r] = "sync_wait"
    /\ ag.done[r]
    /\ LET outs == agOutputs(ag.layout[r], ag.n)
       IN ag' = [ag EXCEPT !.phase[r] = "returned",
                           !.mem[r] = copyBack(@, outs, newLikeFlat(outs), ag.n, 1)]
    /\ UNCHANGED <<callers, cclRank, vectorAllgatherv, pc, call, ret,
                   globalMutex, substrateState, groups, handles, process,
                   recTensors, recResult, a2aArgs, a2aResult, peers>>

\* The caller's wait() on the handle returns.
agWait(r) ==
    /\ ag.phase[r] = "returned"
    /\ ag.done[r]
    /\ ag' = [ag EXCEPT !.phase[r] = "waited"]
    /\ UNCHANGED <<callers, cclRank, vectorAllgatherv, pc, call, ret,
                   globalMutex, substrateState, groups, handles, process,
                   recTensors, recResult, a2aArgs, a2aResult, peers>>

NextAllgather ==
    \E r \in Ranks : agCall(r) \/ agSubstrate(r) \/ agCopyBack(r) \/ agWait(r)

SpecAllgather == InitAllgather /\ [][NextAllgather]_vars

\* ------------------------------------------- the ranks of two process groups
\* Every rank is a process with its own globalMutex (peers.lock[r]) and the
\* caller threads of Threads; the process holds one process group per thread,
\* and thread t of every rank makes the one collective of its group
\* (peers.kind[t]: an allreduce followed by wait() on the handle, or a barrier).
\* peers.at[r][t] is where the thread is, peers.issued[r] the groups whose
\* collective has entered the substrate on rank r.

\* The substrate completes the collective of thread t's group once every rank
\* of the group has entered it.
peersComplete(t) == \A r \in Ranks : t \in peers.issued[r]

InitPeers ==
    /\ callers = {} /\ cclRank = 0 /\ InitCommon
    /\ recTensors = <<>> /\ recResult = NoResult
    /\ a2aArgs = NoArgs /\ a2aResult = NoResult
    /\ ag = NoRanks
    /\ \E kind \in [Threads -> {"allreduce", "barrier"}] :
          peers = [kind |-> kind,
                   lock |-> [r \in Ranks |-> NoThread],
                   at |-> [r \in Ranks |-> [t \in Threads |-> "start"]],
                   issued |-> [r \in Ranks |-> {}]]

\* std::unique_lock globalLock(globalMutex) of allreduce or barrier on rank r:
\* the lock is acquired and the substrate's collective entered.
peersDispatchLock(r, t) ==
    /\ peers.at[r][t] = "start"
    /\ peers.lock[r] = NoThread
    /\ peers' = [peers EXCEPT !.lock[r] = t, !.at[r][t] = "in_coll",
                              !.issued[r] = @ \cup {t}]
    /\ UNCHANGED <<callers, cclRank, vectorAllgatherv, pc, call, ret,
                   globalMutex, substrateState, groups, handles, process,
                   recTensors, recResult, a2aArgs, a2aResult, ag>>

\* comm->allreduce returns the request and allreduce returns the handle;
\* comm->barrier() returns once every rank has entered it and barrier returns a
\* handle without request.  The lock is released as the call is left.
peersDispatchIssued(r, t) ==
    /\ peers.at[r][t] = "in_coll"
    /\ peers.kind[t] = "barrier" => peersComplete(t)
    /\ peers' = [peers EXCEPT !.lock[r] = NoThread,
                              !.at[r][t] = IF peers.kind[t] = "barrier"
                                           THEN "done" ELSE "handle"]
    /\ UNCHANGED <<callers, cclRank, vectorAllgatherv, pc, call, ret,
                   globalMutex, substrateState, groups, handles, process,
                   recTensors, recResult, a2aArgs, a2aResult, ag>>

\* wait() on the handle: req is set, the lock is acquired, req->wait() entered.
peersWaitLock(r, t) ==
    /\ peers.at[r][t] = "handle"
    /\ peers.lock[r] = NoThread
    /\ peers' = [peers EXCEPT !.lock[r] = t, !.at[r][t] = "w_wait"]
    /\ UNCHANGED <<callers, cclRank, vectorAllgatherv, pc, call, ret,
                   globalMutex, substrateState, groups, handles, process,
                   recTensors, recResult, a2aArgs, a2aResult, ag>>

\* req->wait() returns once the request has completed; wait() returns true and
\* releases the lock.
peersWaitReturn(r, t) ==
    /\ peers.at[r][t] = "w_wait"
    /\ peersComplete(t)
    /\ peers' = [peers EXCEPT !.lock[r] = NoThread, !.at[r][t] = "done"]
    /\ UNCHANGED <<callers, cclRank, vectorAllgatherv, pc, call, ret,
                   globalMutex, substrateState, groups, handles, process,
                   recTensors, recResult, a2aArgs, a2aResult, ag>>

NextPeers ==
    \E r \in Ranks, t \in Threads :
        \/ peersDispatchLock(r, t)
        \/ peersDispatchIssued(r, t)
        \/ peersWaitLock(r, t)
        \/ peersWaitReturn(r, t)

\* Every thread that can take a step is scheduled, and a free mutex is given
\* to one of the threads that ask for it.
SpecPeers == InitPeers /\ [][NextPeers]_vars /\ WF_vars(NextPeers)

\* ------------------------------------------------------------------ claims
DispatchOps ==
    {"broadcast", "allreduce", "reduce", "allgather", "gather", "scatter",
     "alltoall_base", "alltoall", "barrier"}

\* Thread t is inside a substrate entry point: a collective primitive, a
\* request's test() or wait(), the creation or the release of a communicator.
InSubstrate(t) ==
    pc[t] \in {"in_coll", "sync_wait", "ic_test", "w_wait", "init_create",
               "ctor_create", "dtor_reset", "fini_reset"}

\* This step destroys the handle h.
Destroyed(h) == handles[h].state = "live" /\ handles'[h].state # "live"

\* C1: destroying a Work handle that still holds its request terminates the
\* process, and no call throws or returns for it; destroying a handle whose
\* request is absent or was cleared by isCompleted()/wait() leaves the process
\* running.
C1_DestructionFatalIffRequestHeld ==
    [][\A h \in Handles :
          Destroyed(h) =>
              /\ handles[h].req => process' = "terminated"
              /\ ~handles[h].req => process' = process /\ process' = "running"
              /\ ret' = ret /\ pc' = pc]_vars

\* C1 witness: a pending handle was destroyed and the process is terminated.
C1_Witness ==
    /\ process = "terminated"
    /\ \E h \in Handles : handles[h].state = "destroying" /\ handles[h].req

\* C2, as claimed: a dispatch that waited inside the call to copy its results
\* back returns a handle that holds no request.
C2_SyncDispatchReturnsCompletedHandle ==
    \A t \in Threads :
        (pc[t] = "returned" /\ ret[t].value = "work" /\ call[t].sync)
            => ~handles[ret[t].h].req

\* The positions at which a thread waits for the global lock.
LockWaits == {"lock", "ic_lock", "w_lock", "ctor_lock", "dtor_lock", "fini_lock"}

Inside == {t \in Threads : InSubstrate(t)}

BlockedInSubstrate(u) ==
    /\ globalMutex = u
    /\ \/ pc[u] = "w_wait" /\ ~handles[call[u].h].done
       \/ pc[u] = "in_coll" /\ call[u].prim = "barrier"

\* C4, as claimed: isCompleted() never has to wait for another thread: no
\* thread is held at the lock of isCompleted() while another thread keeps the
\* lock inside wait() on a pending request or inside the barrier.
C4_IsCompletedNeverBlocks ==
    \A t, u \in Threads :
        (t # u /\ pc[t] = "ic_lock") => ~BlockedInSubstrate(u)

\* C5, as claimed: the shared communicator is created exactly once and the
\* teardown callback registered exactly once, whatever the number of creations.
C5_InitializedExactlyOnce ==
    /\ initRuns <= 1
    /\ atexitHandlers <= 1
    /\ (\E g \in Groups : groups[g].state = "live")
          => (initRuns = 1 /\ atexitHandlers = 1)

\* C5, amended: the creation whose once-call completes registers the teardown
\* callback, exactly once, and every later creation reuses the shared
\* communicator: it creates none and registers nothing.  A once-call that
\* fails (the substrate raises, or the registration is refused after the
\* communicator was made) leaves the flag unset, and the next creation runs it
\* again.  A group exists only after a completed once-call, and one thread at a
\* time runs the once-call.
C5_InitializedOnceCompleted ==
    /\ [](/\ atexitHandlers <= 1
          /\ (cclInitOnceFlag = "done") <=> (atexitHandlers = 1)
          /\ atexitHandlers <= initRuns
          /\ (cclInitOnceFlag = "done" /\ process # "exited") => globalComm
          /\ (\E g \in Groups : groups[g].state = "live")
                => cclInitOnceFlag = "done"
          /\ Cardinality({t \in Threads : pc[t] = "init_create"}) <= 1)
    /\ [][cclInitOnceFlag = "done" =>
             /\ cclInitOnceFlag' = "done"
             /\ initRuns' = initRuns
             /\ atexitHandlers' = atexitHandlers
             /\ \A t \in Threads : pc'[t] # "init_create"]_vars

\* C5 witness: with a group made by an earlier creation, a later creation has
\* passed the once-call and is about to make its own communicator.
C5_Witness ==
    /\ \E g \in Groups : groups[g].state = "live"
    /\ \E t \in Threads : pc[t] = "ctor_lock"
                            /\ call[t].op = "createProcessGroupCCL"
                            /\ call[t].entered = <<>>
    /\ initRuns >= 1 /\ atexitHandlers = 1

\* A buffer that has memory the substrate can touch.
HasMemory(b) == b.numel > 0

\* A handle whose request is in flight.
InFlight(h) == Live(h) /\ handles[h].req /\ ~handles[h].done

\* C6: while the request of a returned handle is in flight the handle holds
\* every buffer whose memory was handed to the substrate, and its references
\* do not change before the request is cleared; a gather on the root with
\* outputs contiguous in rank order returns a handle that holds the flat
\* buffer and the input.
C6_PendingHandleKeepsBuffers ==
    /\ [](/\ \A h \in Handles :
                InFlight(h) =>
                    \A b \in handles[h].lent : HasMemory(b) => b \in handles[h].tensors
          /\ \A t \in Threads :
                (/\ pc[t] = "returned" /\ ret[t].value = "work"
                 /\ call[t].op = "gather" /\ ~call[t].oob
                 /\ call[t].root = groups[call[t].pg].rank /\ ~call[t].sync)
                    => /\ handles[ret[t].h].req
                       /\ handles[ret[t].h].tensors = call[t].lent
                       /\ Cardinality(handles[ret[t].h].tensors) = 2)
    /\ [][\A h \in Handles :
             (handles[h].req /\ handles'[h].req /\ Live(h))
                 => handles'[h].tensors = handles[h].tensors]_vars

\* C6 witness: the root's gather into contiguous outputs returned a handle
\* whose request is in flight.
C6_Witness ==
    \E t \in Threads :
        /\ pc[t] = "returned" /\ ret[t].value = "work"
        /\ call[t].op = "gather" /\ ~call[t].oob /\ ~call[t].sync
        /\ call[t].root = groups[call[t].pg].rank
        /\ InFlight(ret[t].h)
        /\ \E b \in handles[ret[t].h].tensors : HasMemory(b)

\* This step is thread t making the call op on handle h.
Calls(t, op, h) ==
    pc[t] = "idle" /\ pc'[t] # "idle" /\ call'[t].op = op /\ call'[t].h = h

\* C7: isCompleted() and wait() on a handle that holds no request return true
\* at once: the lock is not acquired, the substrate is not entered and the
\* handle is left as it was.
C7_NoRequestReturnsTrue ==
    [][\A t \in Threads, h \in Handles :
          ((Calls(t, "isCompleted", h) \/ Calls(t, "wait", h)) /\ ~handles[h].req)
              => /\ pc'[t] = "returned"
                 /\ ret'[t].value = "true"
                 /\ ~call'[t].locked
                 /\ call'[t].entered = <<>>
                 /\ globalMutex' = globalMutex
                 /\ handles' = handles]_vars

\* C7 witness: wait() returned true on a handle without request, lock untouched.
C7_Witness ==
    \E t \in Threads :
        /\ pc[t] = "returned" /\ call[t].op = "wait"
        /\ ret[t].value = "true" /\ ~call[t].locked
        /\ Live(call[t].h) /\ ~handles[call[t].h].req

\* C8: isSuccess() throws an invalid-state error and leaves the handle as it
\* was while the handle holds a request; it returns true once the request has
\* been cleared.
C8_IsSuccessOnlyAfterCompletion ==
    [][\A t \in Threads, h \in Handles :
          Calls(t, "isSuccess", h) =>
              /\ handles' = handles
              /\ pc'[t] = "returned"
              /\ IF handles[h].req
                 THEN ret'[t].value = "throw" /\ ret'[t].error = "invalid_state"
                 ELSE ret'[t].value = "true"]_vars

\* C8 witness: isSuccess() threw on a handle that still holds its request.
C8_Witness ==
    \E t \in Threads :
        /\ pc[t] = "returned" /\ call[t].op = "isSuccess"
        /\ ret[t].error = "invalid_state"
        /\ handles[call[t].h].req /\ handles[call[t].h].tensors # {}

\* C9, as claimed: an operation call refused for its input throws a validation
\* error before the lock is acquired and before any substrate call.
C9_BadInputRejectedBeforeLock ==
    \A t \in Threads :
        (/\ pc[t] = "returned" /\ call[t].op \in DispatchOps
         /\ ret[t].cause \in {"check", "lookup"})
            => /\ ret[t].error = "validation"
               /\ ~call[t].locked
               /\ call[t].entered = <<>>

\* C10, as claimed: a rooted operation called with a root outside
\* 0 <= root < groupSize throws a validation error, no count table having been
\* indexed by the root and no substrate call made.
C10_RootRankChecked ==
    \A t \in Threads :
        (/\ call[t].op \in {"broadcast", "reduce", "gather", "scatter"}
         /\ call[t].root \notin 0..(WorldSize - 1))
            => /\ ~call[t].oob
               /\ pc[t] = "returned"
               /\ ret[t].error = "validation"
               /\ ~call[t].locked

\* This step is thread t entering the operation op of a process group.
Enters(t, op) == pc[t] = "idle" /\ pc'[t] # "idle" /\ call'[t].op = op

\* C11: allreduce_coalesced, allgather_base, allgather_coalesced,
\* reduce_scatter, send, recv and recvAnysource throw a not-supported error at
\* once, in whatever state they are called: the lock is not taken, the
\* substrate is not entered, no handle is made and the state of the engine is
\* left as it was.
C11_UnsupportedAlwaysThrows ==
    [][\A t \in Threads, op \in Unsupported :
          Enters(t, op) =>
              /\ pc'[t] = "returned"
              /\ ret'[t].value = "throw" /\ ret'[t].error = "not_supported"
              /\ ~call'[t].locked /\ call'[t].entered = <<>>
              /\ UNCHANGED <<globalMutex, substrateState, groups, handles,
                             process>>]_vars

\* C11 witness: an unsupported operation threw while a handle of the group
\* had its request in flight.
C11_Witness ==
    \E t \in Threads :
        /\ pc[t] = "returned" /\ call[t].op \in Unsupported
        /\ ret[t].error = "not_supported"
        /\ \E h \in Handles : InFlight(h)

\* The element counts of the buffers of a list, and of those before position i.
Numels(ts) == [i \in DOMAIN ts |-> ts[i].numel]
Before(ts, i) == SumSeq(SubSeq(Numels(ts), 1, i - 1))

\* Every non-empty buffer of the list lies in the first buffer's allocation,
\* at the first buffer's offset plus the lengths of the buffers before it.
ContiguousFromFirst(ts) ==
    \A i \in DOMAIN ts :
        ts[i].numel # 0 =>
            /\ ts[i].storage = ts[1].storage
            /\ ts[i].offset = ts[1].offset + Before(ts, i)

\* The first non-empty buffer of the list; the first buffer if all are empty.
Anchor(ts) ==
    IF \A i \in DOMAIN ts : ts[i].numel = 0 THEN ts[1]
    ELSE ts[CHOOSE i \in DOMAIN ts :
                /\ ts[i].numel # 0
                /\ \A j \in 1..(i - 1) : ts[j].numel = 0]

\* The flat buffer is one of the caller's buffers: nothing was allocated.
NothingAllocated == recResult.flatTensor \in Range(recTensors)

\* C12, as claimed: for a list contiguous in rank order from its first buffer
\* the reconciler reports flat, returns the first buffer of the list, allocates
\* nothing and fills the length table with the element counts.
C12_FlatReturnsFirstBuffer ==
    (recResult.called /\ ContiguousFromFirst(recTensors))
        => /\ recResult.isFlat
           /\ recResult.flatTensor = recTensors[1]
           /\ NothingAllocated
           /\ recResult.lengths = Numels(recTensors)

\* C12, amended: for such a list the reconciler reports flat, allocates nothing
\* and fills the length table with the element counts; the flat buffer it
\* returns is the first non-empty buffer of the list, which is the first
\* buffer when that one is non-empty or when every buffer is empty.
C12_FlatReturnsAnchor ==
    (recResult.called /\ ContiguousFromFirst(recTensors))
        => /\ recResult.isFlat
           /\ recResult.flatTensor = Anchor(recTensors)
           /\ NothingAllocated
           /\ recResult.lengths = Numels(recTensors)
           /\ recTensors[1].numel # 0 => recResult.flatTensor = recTensors[1]

\* C12 witness: three non-empty slices of one allocation in rank order were
\* reconciled.
C12_Witness ==
    /\ recResult.called
    /\ Len(recTensors) = MaxLen
    /\ ContiguousFromFirst(recTensors)
    /\ \A i \in DOMAIN recTensors : recTensors[i].numel # 0

\* Buffer i of the list is where the anchor's layout puts it: in the anchor's
\* allocation, at the anchor's offset plus the lengths of the buffers before it.
InPlace(ts, i) ==
    /\ ts[i].storage = Anchor(ts).storage
    /\ ts[i].offset = Anchor(ts).offset + Before(ts, i)

SomeNotInPlace(ts) == \E i \in DOMAIN ts : ts[i].numel # 0 /\ ~InPlace(ts, i)

\* The flat buffer lies in an allocation none of the caller's buffers is in.
NewlyAllocated ==
    \A i \in DOMAIN recTensors : recResult.flatTensor.storage # recTensors[i].storage

\* C13: for a list in which some non-empty buffer is not in place the
\* reconciler reports not flat and returns a newly allocated buffer whose
\* element count is the sum of the buffers' element counts, the length table
\* holding each buffer's element count.
C13_NotFlatAllocatesSum ==
    (recResult.called /\ SomeNotInPlace(recTensors))
        => /\ ~recResult.isFlat
           /\ NewlyAllocated
           /\ recResult.flatTensor.numel = SumSeq(Numels(recTensors))
           /\ recResult.flatTensor.dtype = Anchor(recTensors).dtype
           /\ recResult.lengths = Numels(recTensors)

\* C13 witness: a list of slices of one allocation with a gap between two of
\* them was reconciled into a new buffer.
C13_Witness ==
    /\ recResult.called
    /\ Len(recTensors) = MaxLen
    /\ \A i \in DOMAIN recTensors :
          recTensors[i].numel # 0 /\ recTensors[i].storage = recTensors[1].storage
    /\ SomeNotInPlace(recTensors)
    /\ recResult.flatTensor.numel > 0

AllEmpty(ts) == \A i \in DOMAIN ts : ts[i].numel = 0

\* C14: a list of empty buffers is reported flat with a flat buffer of no
\* elements; and the first non-empty buffer is the anchor, so that a list whose
\* non-empty buffers are in place is reported flat, with the anchor as flat
\* buffer, wherever its empty buffers live.
C14_EmptyBuffersDoNotBreakFlat ==
    recResult.called =>
        /\ AllEmpty(recTensors)
              => recResult.isFlat /\ recResult.flatTensor.numel = 0
        /\ ~SomeNotInPlace(recTensors)
              => /\ recResult.isFlat
                 /\ recResult.flatTensor = Anchor(recTensors)
                 /\ NothingAllocated

\* C14 witness: a list led by an empty buffer of another allocation, followed
\* by two slices of one allocation in order, was reported flat.
C14_Witness ==
    /\ recResult.called /\ recResult.isFlat
    /\ Len(recTensors) = 3
    /\ recTensors[1].numel = 0
    /\ recTensors[2].numel # 0 /\ recTensors[3].numel # 0
    /\ recTensors[1].storage # recTensors[2].storage
    /\ recTensors[1].offset # recTensors[2].offset
    /\ recResult.flatTensor = recTensors[2]

\* The sum of a table of counts, and the value of a split list's sum.
RECURSIVE SumWide(_)
SumWide(s) ==
    IF s = <<>> THEN Wide(0, 0, 0)
    ELSE LET r == SumWide(Tail(s))
         IN Wide(Head(s).lo + r.lo, Head(s).hi + r.hi, Head(s).top + r.top)

\* A split list the claim calls valid for a buffer: empty with the leading
\* dimension divisible by the group size, or one entry per rank summing to the
\* leading dimension.
ValidSplits(splits, tensor, size_) ==
    \/ Len(splits) = 0 /\ tensor.dim0 % size_ = 0
    \/ Len(splits) = size_ /\ SumWide(splits) = Wide(tensor.dim0, 0, 0)

\* A non-empty list of the wrong length or the wrong sum.
BadSplits(splits, tensor, size_) ==
    /\ Len(splits) # 0
    /\ Len(splits) # size_ \/ SumWide(splits) # Wide(tensor.dim0, 0, 0)

\* C15, as claimed: for split lists that are valid the send counts sum to the
\* input buffer's element count and the receive counts to the output buffer's;
\* a non-empty list of another length than the group size or another sum than
\* the leading dimension is rejected.
C15_SplitCountsSumToNumel ==
    a2aResult.called =>
        LET a == a2aArgs
        IN /\ (/\ a2aResult.accepted
               /\ ValidSplits(a.inputSplitSizes, a.inputTensor, a.size_)
               /\ ValidSplits(a.outputSplitSizes, a.outputTensor, a.size_))
                 => /\ SumWide(a2aResult.sendCounts) = Wide(a.inputTensor.numel, 0, 0)
                    /\ SumWide(a2aResult.recvCounts) = Wide(a.outputTensor.numel, 0, 0)
           /\ (\/ BadSplits(a.inputSplitSizes, a.inputTensor, a.size_)
               \/ BadSplits(a.outputSplitSizes, a.outputTensor, a.size_))
                 => ~a2aResult.accepted

\* Thread t's call of createProcessGroupCCL has returned or thrown.
Created(t) == call[t].op = "createProcessGroupCCL" /\ pc[t] = "returned"

\* Every process group reports the substrate's rank and size.
GroupsReportSubstrate ==
    \A g \in Groups :
        groups[g].state = "live"
            => groups[g].rank = cclRank /\ groups[g].size = WorldSize

\* The rank or the size is given (not -1) and is not the substrate's.
Mismatch(rank, size) ==
    \/ rank # -1 /\ rank # cclRank
    \/ size # -1 /\ size # WorldSize

\* C17, as claimed: a creation with a rank or a size that differs from the
\* substrate's throws a validation error and makes no group; a group that is
\* made reports the substrate's rank and size.
C17_DifferingRankOrSizeRejected ==
    /\ \A t \in Threads :
          (Created(t) /\ (call[t].rank # cclRank \/ call[t].size # WorldSize))
              => ret[t].value = "throw" /\ ret[t].error = "validation"
    /\ GroupsReportSubstrate

\* C17, amended: a rank or a size of -1 stands for the substrate's and is
\* accepted; a creation with another rank or size than the substrate's makes no
\* group: it throws a validation error, or the error of the one-time
\* initialization when the initialization it ran failed.  A group that is made
\* reports the substrate's rank and size.
C17_MismatchRejected ==
    /\ \A t \in Threads :
          (Created(t) /\ Mismatch(call[t].rank, call[t].size))
              => /\ ret[t].value = "throw"
                 /\ call[t].pg = 0
                 /\ ~call[t].locked
                 /\ \/ ret[t].error = "validation"
                    \/ /\ ret[t].error \in {"substrate", "unknown", "atexit_failed"}
                       /\ call[t].entered = <<"create_global">>
    /\ \A t \in Threads :
          (Created(t) /\ ret[t].value = "group")
              => /\ call[t].rank \in {-1, cclRank}
                 /\ call[t].size \in {-1, WorldSize}
                 /\ groups[call[t].pg].state = "live"
    /\ GroupsReportSubstrate

\* C17 witness: after a successful initialization a creation with a size that
\* is not the substrate's threw a validation error and no group exists.
C17_Witness ==
    \E t \in Threads :
        /\ Created(t) /\ ret[t].error = "validation"
        /\ call[t].size = WorldSize + 1
        /\ cclInitOnceFlag = "done"
        /\ \A g \in Groups : groups[g].state = "none"

\* C18: barrier() checks nothing, so it throws only what the substrate raised;
\* it is inside the substrate's barrier holding the global lock, and it has
\* returned its handle only after having been there; the handle holds no
\* request and no buffer, so destroying it without wait() is not fatal.
C18_BarrierHandleHasNoRequest ==
    \A t \in Threads :
        call[t].op = "barrier" =>
            /\ pc[t] \in {"lock", "in_coll", "returned"}
            /\ pc[t] = "lock" => call[t].entered = <<>>
            /\ pc[t] = "in_coll"
                  => globalMutex = t /\ call[t].entered = <<"barrier">>
            /\ (pc[t] = "returned" /\ ret[t].value = "throw")
                  => /\ ret[t].cause = "substrate"
                     /\ call[t].entered = <<"barrier">>
            /\ (pc[t] = "returned" /\ ret[t].value # "throw")
                  => /\ ret[t].value = "work"
                     /\ call[t].locked /\ call[t].entered = <<"barrier">>
                     /\ globalMutex # t
                     /\ Live(ret[t].h)
                     /\ ~handles[ret[t].h].req
                     /\ handles[ret[t].h].tensors = {}
                     /\ ~DestructorTerminates(handles[ret[t].h])

\* C18 witness: barrier() returned its handle while the other thread waits for
\* the lock.
C18_Witness ==
    \E t, u \in Threads :
        /\ t # u
        /\ call[t].op = "barrier" /\ pc[t] = "returned" /\ ret[t].value = "work"
        /\ ~handles[ret[t].h].req
        /\ pc[u] \in LockWaits

\* In this step thread t leaves req->test() or req->wait() on handle h with
\* the answer v.
Answers(t, h, v) ==
    /\ pc[t] \in {"ic_test", "w_wait"} /\ call[t].h = h
    /\ pc'[t] = "returned" /\ ret'[t].value = v

\* C19: the request of a handle is released exactly in the step in which
\* isCompleted() polled it complete or wait() returns, and the buffers are
\* dropped in that same step; a poll that answers false changes nothing; a
\* handle without request holds no buffer and never gets a request again.
C19_CompletionReleasesTogether ==
    /\ [](\A h \in Handles :
              (Live(h) /\ ~handles[h].req) => handles[h].tensors = {})
    /\ [][\A h \in Handles :
             (Live(h) /\ handles'[h].state = "live") =>
                 /\ (handles[h].req /\ ~handles'[h].req)
                       <=> \E t \in Threads : Answers(t, h, "true")
                 /\ ~handles'[h].req
                       => handles'[h].tensors = {} /\ handles'[h].lent = {}
                 /\ (\E t \in Threads : Answers(t, h, "false"))
                       => handles'[h] = handles[h]
                 /\ ~handles[h].req => handles'[h] = handles[h]
                 /\ handles'[h].req => handles'[h].tensors = handles[h].tensors]_vars

\* C19 witness: a poll found the request of a handle complete; the handle holds
\* neither request nor buffer.
C19_Witness ==
    \E t \in Threads :
        /\ pc[t] = "returned" /\ call[t].op = "isCompleted"
        /\ call[t].entered = <<"test">> /\ ret[t].value = "true"
        /\ Live(call[t].h)
        /\ ~handles[call[t].h].req /\ handles[call[t].h].tensors = {}

\* C20: when req->test() or req->wait() raises, isCompleted() or wait() throws
\* the std::runtime_error that CCL_CHECK makes of it, whatever was raised, with
\* the lock released and the handle as it was: the request is held, the
\* buffers too, and destroying the handle is fatal.
C20_SubstrateErrorLeavesHandlePending ==
    [][\A t \in Threads, h \in Handles :
          (/\ pc[t] \in {"ic_test", "w_wait"} /\ call[t].h = h
           /\ pc'[t] = "returned" /\ ret'[t].value = "throw")
              => /\ ret'[t].cause = "substrate"
                 /\ ret'[t].error \in {"substrate", "unknown"}
                 /\ ExceptionType(ret'[t].error) = "std::runtime_error"
                 /\ globalMutex' = NoThread
                 /\ handles'[h] = handles[h]
                 /\ handles'[h].req
                 /\ DestructorTerminates(handles'[h])]_vars

\* C20 witness: wait() threw a substrate error on a handle that still holds
\* its request and its buffers.
C20_Witness ==
    \E t \in Threads :
        /\ pc[t] = "returned" /\ call[t].op = "wait"
        /\ ret[t].value = "throw" /\ ret[t].cause = "substrate"
        /\ ret[t].error = "unknown"
        /\ Live(call[t].h)
        /\ handles[call[t].h].req /\ handles[call[t].h].tensors # {}

\* C16: when every rank has called allgather with an input of the same length
\* and type, on every rank whose call has returned and whose handle has been
\* waited on, output i holds rank i's input, for every i.
C16_AllgatherOutputsEqualInputs ==
    \A r \in Ranks :
        (ag.n # 0 /\ ag.phase[r] = "waited") =>
            \A i \in 1..WorldSize :
                ReadBuffer(ag.mem[r], agOutputs(ag.layout[r], ag.n)[i])
                    = agData(i - 1, ag.n)

\* C16 witness: in the build that gathers into a flat buffer, every rank has
\* waited, one of them with outputs in allocations of their own.
C16_Witness ==
    /\ ag.n = 2
    /\ ~vectorAllgatherv
    /\ \A r \in Ranks : ag.phase[r] = "waited"
    /\ \E r \in Ranks : ag.layout[r] = "own"

\* The call of thread t is a gather or a scatter that passed its checks, with a
\* root inside the group and an element type the registry has.
RootedIssue(t) ==
    /\ call[t].op \in {"gather", "scatter"}
    /\ call[t].prim = "alltoallv"
    /\ ~call[t].oob
    /\ ~lookupThrows(call[t])

\* How many times the call of thread t has entered the substrate's alltoallv.
Issued(t) ==
    Cardinality({i \in DOMAIN call[t].entered : call[t].entered[i] = "alltoallv"})

AllZero(counts) == \A i \in DOMAIN counts : counts[i] = 0

OnlyRootSlot(counts, rootRank) ==
    \A i \in DOMAIN counts : counts[i] # 0 => i = rootRank + 1

\* C21: a gather or scatter that passed its checks (root inside the group,
\* element type in the registry) enters alltoallv exactly once on whatever rank
\* it runs, root or not, and no other collective; its tables have one slot per
\* rank; gather's send counts and scatter's receive counts are zero outside the
\* root's slot, and on a rank that is not the root gather's receive counts and
\* scatter's send counts are all zero.
C21_RootedOpsIssueOneAlltoallv ==
    \A t \in Threads :
        RootedIssue(t) =>
            LET c == call[t]
                toRoot == IF c.op = "gather" THEN c.sendCounts ELSE c.recvCounts
                other == IF c.op = "gather" THEN c.recvCounts ELSE c.sendCounts
            IN /\ Len(toRoot) = WorldSize /\ Len(other) = WorldSize
               /\ OnlyRootSlot(toRoot, c.root)
               /\ cclRank # c.root => AllZero(other)
               /\ Issued(t) <= 1
               /\ \A i \in DOMAIN c.entered : c.entered[i] \in {"alltoallv", "wait"}
               /\ pc[t] \in {"in_coll", "sync_wait", "returned"} => Issued(t) = 1

\* C21 witness: on a rank that is not the root, a gather has returned its
\* handle after one alltoallv whose only count is the input's, in the root's
\* slot.
C21_Witness ==
    \E t \in Threads :
        /\ RootedIssue(t)
        /\ call[t].op = "gather"
        /\ cclRank # call[t].root
        /\ pc[t] = "returned" /\ ret[t].value = "work"
        /\ call[t].entered = <<"alltoallv">>
        /\ call[t].sendCounts[call[t].root + 1] > 0
        /\ AllZero(call[t].recvCounts)

\* The call of thread t is a gather, a scatter or a list-form alltoall that
\* passed its checks, with the root inside the group.
Reconciled(t) ==
    /\ call[t].op \in {"gather", "scatter", "alltoall"}
    /\ call[t].prim = "alltoallv"
    /\ ~call[t].oob

\* The list the call sends from and the list it receives into, where it has one.
Sources(c) ==
    IF c.op = "alltoall" \/ (c.op = "scatter" /\ cclRank = c.root)
    THEN c.inputs ELSE <<>>

Sinks(c) ==
    IF c.op = "alltoall" \/ (c.op = "gather" /\ cclRank = c.root)
    THEN c.outputs ELSE <<>>

SameMemory(x, y) ==
    x.storage = y.storage /\ x.offset = y.offset /\ x.numel = y.numel

\* x is slice i of one flat buffer laid out after the list ts, in an allocation
\* none of the list's buffers is in.
SynthesizedSlice(x, ts, i) ==
    /\ x.numel = ts[i].numel
    /\ x.offset = Before(ts, i)
    /\ \A j \in DOMAIN ts : x.storage # ts[j].storage

SameAllocation(xs) == \A i, j \in DOMAIN xs : xs[i].storage = xs[j].storage

\* C22: a gather, scatter or list-form alltoall whose source list is not flat
\* has copied, before it goes for the lock and so before alltoallv is issued,
\* source i into slice i of one new flat buffer, for every i; while the call
\* is under way no other copy exists; when it has returned its handle and its
\* destination list is not flat, slice i of one new flat buffer has been
\* copied into destination i, for every i; these copies are made in the step in
\* which req->wait() returns, with the request complete; a list that is flat
\* is copied in neither direction.
C22_CopiesAroundTheSubstrateCall ==
    /\ [](\A t \in Threads :
            Reconciled(t) =>
                LET c == call[t]
                    pre == IF SomeNotInPlace(Sources(c)) THEN Len(Sources(c)) ELSE 0
                    post == IF SomeNotInPlace(Sinks(c)) THEN Len(Sinks(c)) ELSE 0
                    done == pc[t] = "returned" /\ ret[t].value = "work"
                IN /\ Len(c.copies) = pre + (IF done THEN post ELSE 0)
                   /\ \A i \in 1..pre :
                        /\ SameMemory(c.copies[i].src, Sources(c)[i])
                        /\ SynthesizedSlice(c.copies[i].dst, Sources(c), i)
                   /\ SameAllocation([i \in 1..pre |-> c.copies[i].dst])
                   /\ done =>
                        /\ \A i \in 1..post :
                             /\ SameMemory(c.copies[pre + i].dst, Sinks(c)[i])
                             /\ SynthesizedSlice(c.copies[pre + i].src, Sinks(c), i)
                        /\ SameAllocation([i \in 1..post |-> c.copies[pre + i].src]))
    /\ [][\A t \in Threads :
            Len(call'[t].copies) > Len(call[t].copies) =>
                \/ pc[t] = "idle" /\ pc'[t] = "lock" /\ call'[t].entered = <<>>
                \/ /\ pc[t] = "sync_wait"
                   /\ call[t].entered = <<call[t].prim, "wait">>
                   /\ ret'[t].value = "work"
                   /\ handles'[ret'[t].h].done]_vars

\* C22 witness: a list-form alltoall with neither list flat has returned its
\* handle: its inputs were copied in before the call and the slices out after.
C22_Witness ==
    \E t \in Threads :
        /\ Reconciled(t)
        /\ call[t].op = "alltoall"
        /\ SomeNotInPlace(call[t].inputs) /\ SomeNotInPlace(call[t].outputs)
        /\ pc[t] = "returned" /\ ret[t].value = "work"
        /\ Len(call[t].copies) = 2 * WorldSize
        /\ call[t].copies[2].dst.offset = 2

\* C23, as claimed: a thread that comes through the lock of wait() or
\* isCompleted() to use the request of its handle finds the request still held
\* (no other thread released it in between), and the process goes on.
C23_RequestUsedOnlyWhileHeld ==
    [][\A t \in Threads :
          (pc[t] \in {"ic_lock", "w_lock"} /\ pc'[t] # pc[t])
              => /\ handles[call[t].h].req
                 /\ process' # "crashed"]_vars

\* C24, as claimed: when every rank attempts the one collective of each of its
\* two groups, every thread that asks for the lock comes to hold it and every
\* wait() and barrier returns.
C24_EveryWaitReturns ==
    \A r \in Ranks, t \in Threads :
        /\ (peers.lock # <<>> /\ peers.at[r][t] \in {"start", "handle"})
               ~> (peers.at[r][t] \in {"in_coll", "w_wait"})
        /\ (peers.lock # <<>> /\ peers.at[r][t] \in {"in_coll", "w_wait"})
               ~> (peers.at[r][t] \in {"handle", "done"})

\* Where a thread is while it holds the lock: inside the substrate call of a
\* dispatch or the wait and copy-back that follow it, inside req->test() or
\* req->wait() of a handle, inside the construction or destruction of a
\* process group, inside the exit handler's release of the communicator.
LockHeldAt ==
    {"in_coll", "sync_wait", "ic_test", "w_wait", "ctor_create", "dtor_reset",
     "fini_reset"}

\* What the call computed before its substrate call: the count tables, the
\* buffers handed to the substrate (the flat buffers among them) and whether
\* results are copied back.
Reconciliation(c) == <<c.sendCounts, c.recvCounts, c.inputs, c.outputs, c.lent, c.sync>>

\* C25: a thread holds the lock only while it is inside the locked part of a
\* call, so the lock is free whenever every thread is outside its calls or has
\* left them, by return or by exception (an error of the substrate in a
\* dispatch, wait() or isCompleted() included); an operation rejected by one
\* of its checks on the buffers never took the lock nor entered the substrate; and the count tables,
\* flat buffers and input copies of a call are made in a step in which the
\* thread does not hold the lock and has not yet taken it.
C25_LockReleasedOnEveryExit ==
    /\ [](/\ \A t \in Threads : globalMutex = t => pc[t] \in LockHeldAt
          /\ (\A t \in Threads : pc[t] \in {"idle", "returned"})
                 => globalMutex = NoThread
          /\ \A t \in Threads :
                 (pc[t] = "returned" /\ ret[t].value = "throw") => globalMutex # t
          /\ \A t \in Threads :
                 (call[t].op \in DispatchOps /\ ret[t].cause = "check")
                     => ~call[t].locked /\ call[t].entered = <<>>)
    /\ [][\A t \in Threads :
            (\/ Reconciliation(call'[t]) # Reconciliation(call[t])
             \/ (call[t].entered = <<>> /\ Len(call'[t].copies) > Len(call[t].copies)))
                => /\ globalMutex # t /\ globalMutex' # t
                   /\ ~call'[t].locked]_vars

\* C25 witness: a scatter on the root with inputs that are not flat made its
\* count tables and copies, took the lock, got an error from the substrate and
\* left; the lock is free.
C25_Witness ==
    \E t \in Threads :
        /\ call[t].op = "scatter"
        /\ call[t].copies # <<>>
        /\ call[t].locked
        /\ call[t].entered = <<"alltoallv">>
        /\ pc[t] = "returned" /\ ret[t].cause = "substrate"
        /\ globalMutex = NoThread

====
